---- MODULE Spec2Model ----
(***************************************************************************)
(* DineWise: the backend request handlers (search, nearby and restaurant   *)
(* routers, ownership-scoped wishlist / review / flag handlers, identity   *)
(* check) over the relational store and the Yelp Fusion API, as the        *)
(* repository's documents and frontend callers describe them, and the      *)
(* frontend's routes and auth provider.                                    *)
(*                                                                         *)
(* Ratings are in tenths of a star (4.8 stars = 48), distances and         *)
(* coordinates in metres on a local grid.                                  *)
(***************************************************************************)
EXTENDS Integers, Sequences, FiniteSets, TLC

VARIABLES
    cache,      \* restaurant_cache table: set of rows
    wishlist,   \* wishlist table: sequence of rows, in insertion order
    reviews,    \* reviews table: sequence of rows, in insertion order
    flags,      \* user_restaurant_flags table: sequence of rows
    nextId,     \* the reviews table's serial id
    users,      \* users table: sequence of rows, in insertion order
    req,        \* the HTTP request being answered
    yelp,       \* the exchange with the Yelp Fusion API made for req
    resp,       \* the HTTP response to req, until the client takes it
    inflight,   \* requests between their ownership check and their write
    verified,   \* the subject ids whose verified requests the backend has had
    ui          \* the browser: location, rendered page, AuthContext value

vars == <<cache, wishlist, reviews, flags, nextId, users, req, yelp, resp,
          inflight, verified, ui>>

\* The relational store.
store == <<cache, wishlist, reviews, flags, nextId, users>>

\* The browser before the auth provider has heard from Firebase.
InitialUi == [path |-> "/", page |-> "Home", user |-> "none", loading |-> TRUE]

(***************************************************************************)
(* Bounds of the model.                                                    *)
(***************************************************************************)
MaxUpstream == 3    \* businesses in one upstream result page
MaxReviews == 2     \* reviews ever created
MaxInflight == 2    \* requests handled concurrently
MaxBrowserPage == 1 \* businesses in one upstream page answered to a page of the browser

(***************************************************************************)
(* Program constants.                                                      *)
(***************************************************************************)
NoDistance == -1            \* r.distance is None
Missing == -2               \* an absent optional / required query parameter
Null == "null"              \* a field without a value
MinRadius == 100
MaxRadius == 40000
MinLimit == 1
MaxLimit == 50
KnownAreaCodes == {"MAN", "BK", "QN", "BX", "SI"}
MinRating == 1
MaxRating == 5
MaxTextLen == 1000

(***************************************************************************)
(* The businesses the Yelp Fusion API knows.                               *)
(***************************************************************************)
YelpBusinesses ==
    { [id |-> "m1", location_code |-> "MAN", rating |-> 48, price |-> "$$",
       review_count |-> 150, coordinates |-> <<270, 360>>, reportsDistance |-> TRUE],
      [id |-> "m2", location_code |-> "MAN", rating |-> 42, price |-> "$",
       review_count |-> 89, coordinates |-> <<720, 960>>, reportsDistance |-> TRUE],
      [id |-> "m3", location_code |-> "MAN", rating |-> 49, price |-> "$$",
       review_count |-> 200, coordinates |-> <<540, 720>>, reportsDistance |-> TRUE],
      [id |-> "m4", location_code |-> "MAN", rating |-> 48, price |-> "$",
       review_count |-> 300, coordinates |-> <<60, 80>>, reportsDistance |-> FALSE],
      [id |-> "k1", location_code |-> "BK", rating |-> 45, price |-> "$$",
       review_count |-> 50, coordinates |-> <<3000, 4000>>, reportsDistance |-> TRUE] }

Centers == { <<0, 0>>, <<300, 400>> }

(***************************************************************************)
(* Helpers.                                                                *)
(***************************************************************************)
Abs(n) == IF n < 0 THEN -n ELSE n

Min(a, b) == IF a < b THEN a ELSE b

RECURSIVE SqrtBetween(_, _, _)
SqrtBetween(n, lo, hi) ==
    IF lo = hi THEN lo
    ELSE LET mid == (lo + hi + 1) \div 2
         IN  IF mid * mid <= n THEN SqrtBetween(n, mid, hi)
             ELSE SqrtBetween(n, lo, mid - 1)

ISqrt(n) == SqrtBetween(n, 0, 46340)

\* Distance in metres between a query center and a business's coordinates.
DistanceFromCoords(center, coordinates) ==
    LET dx == Abs(center[1] - coordinates[1])
        dy == Abs(center[2] - coordinates[2])
    IN  ISqrt(dx * dx + dy * dy)

\* The sequences of at most n distinct elements of S.
PagesOf(S, n) ==
    UNION { { s \in [1..k -> S] : \A i, j \in 1..k : i # j => s[i] # s[j] }
            : k \in 0..n }

Range(s) == { s[i] : i \in 1..Len(s) }

(***************************************************************************)
(* The Yelp Fusion API.                                                    *)
(***************************************************************************)
\* One business of a Yelp result, with the distance Yelp reports for it.
YelpBusiness(b, distance) ==
    [id |-> b.id, name |-> <<"name", b.id>>, rating |-> b.rating,
     price |-> b.price, categories |-> <<"restaurants">>,
     image_url |-> <<"image", b.id>>, is_closed |-> FALSE,
     review_count |-> b.review_count, location |-> <<"address", b.id>>,
     phone |-> <<"phone", b.id>>, url |-> <<"yelp.com/biz", b.id>>,
     coordinates |-> b.coordinates, distance |-> distance]

\* Yelp reports the distance from the center for the businesses it has one for.
ReportedDistance(b, center) ==
    IF b.reportsDistance THEN DistanceFromCoords(center, b.coordinates)
    ELSE NoDistance

\* Yelp treats radius as advisory: any page of at most limit businesses.
YelpNearbyPages(center, limit) ==
    { [i \in 1..Len(p) |-> YelpBusiness(p[i], ReportedDistance(p[i], center))] :
        p \in PagesOf(YelpBusinesses, Min(limit, MaxUpstream)) }

YelpFailures == {"timeout", "rate_limited", "malformed"}

NoYelpCall == [called |-> FALSE, endpoint |-> "none", outcome |-> "none",
               businesses |-> <<>>]

(***************************************************************************)
(* Responses.                                                              *)
(***************************************************************************)
NoRequest == [endpoint |-> "none"]

NoResponse == [status |-> "none"]

ErrorResponse(http, code) ==
    [status |-> "error", http_status |-> http, code |-> code]

ValidationError == ErrorResponse(422, "validation_error")

UpstreamError(outcome) ==
    ErrorResponse(IF outcome = "rate_limited" THEN 429 ELSE 502,
                  IF outcome = "rate_limited" THEN "rate_limited"
                  ELSE "upstream_error")

(***************************************************************************)
(* Nearby router: GET /search/nearby.                                      *)
(***************************************************************************)
\* transform(business): the normalized summary of one Yelp business.
Transform(business) ==
    [id |-> business.id, name |-> business.name, rating |-> business.rating,
     price |-> business.price, categories |-> business.categories,
     image_url |-> business.image_url, distance |-> business.distance,
     is_open |-> ~business.is_closed, review_count |-> business.review_count,
     address |-> business.location, phone |-> business.phone,
     yelp_url |-> business.url, coordinates |-> business.coordinates]

WithinRadiusLoose(r, radius) == r.distance = NoDistance \/ r.distance <= radius

WithinRadiusUnfiltered(r, radius) == TRUE

\* r.distance is not None and r.distance <= radius
WithinRadius(r, radius) == r.distance # NoDistance /\ r.distance <= radius

StrictRadiusFilter(results, radius) ==
    SelectSeq(results, LAMBDA r : WithinRadius(r, radius))

NearbyParamsAny(r) == TRUE

NearbyParamsValid(r) ==
    /\ r.latitude # Missing
    /\ r.longitude # Missing
    /\ r.radius >= MinRadius /\ r.radius <= MaxRadius
    /\ r.limit >= MinLimit /\ r.limit <= MaxLimit

NearbyTotalUnfiltered(raw, results) == Len(raw)

NearbyTotal(raw, results) == Len(results)

NearbySuccess(r, raw, results) ==
    [status |-> "success", method |-> "yelp_nearby_strict",
     total |-> NearbyTotal(raw, results),
     radius_meters |-> r.radius,
     location |-> [latitude |-> r.latitude, longitude |-> r.longitude],
     restaurants |-> results]

NearbyRequests ==
    { [endpoint |-> "nearby", latitude |-> c[1], longitude |-> c[2],
       radius |-> rad, limit |-> lim] :
        c \in Centers \cup {<<Missing, Missing>>},
        rad \in {50, 100, 1000, 40000, 40001},
        lim \in {2, 20} }

\* A request is answered before the next one of the same client arrives.
Idle == resp.status = "none" /\ inflight = {}

\* The requests of S that can arrive now.
Arriving(S) == IF Idle THEN S ELSE {}

\* search_nearby_restaurants, rejected by parameter validation.
SearchNearbyInvalid(r) ==
    /\ Idle
    /\ ~NearbyParamsValid(r)
    /\ req' = r
    /\ yelp' = NoYelpCall
    /\ resp' = ValidationError
    /\ UNCHANGED <<store, inflight, verified, ui>>

\* search_nearby_restaurants, the Yelp call failing.
SearchNearbyUpstreamFails(r, outcome) ==
    /\ Idle
    /\ NearbyParamsValid(r)
    /\ req' = r
    /\ yelp' = [called |-> TRUE, endpoint |-> "search_nearby",
                outcome |-> outcome, businesses |-> <<>>]
    /\ resp' = UpstreamError(outcome)
    /\ UNCHANGED <<store, inflight, verified, ui>>

\* search_nearby_restaurants: call Yelp, transform, filter strictly by radius.
SearchNearby(r, raw) ==
    /\ Idle
    /\ NearbyParamsValid(r)
    /\ req' = r
    /\ yelp' = [called |-> TRUE, endpoint |-> "search_nearby",
                outcome |-> "ok", businesses |-> raw]
    /\ LET results == [i \in 1..Len(raw) |-> Transform(raw[i])]
       IN  resp' = NearbySuccess(r, raw, StrictRadiusFilter(results, r.radius))
    /\ UNCHANGED <<store, inflight, verified, ui>>

\* The client takes the response; the handler keeps nothing between requests.
Deliver ==
    /\ resp.status # "none"
    /\ req' = NoRequest
    /\ yelp' = NoYelpCall
    /\ resp' = NoResponse
    /\ UNCHANGED <<store, inflight, verified, ui>>

InitNearby ==
    /\ cache = {}
    /\ wishlist = <<>>
    /\ reviews = <<>>
    /\ flags = <<>>
    /\ nextId = 1
    /\ users = <<>>
    /\ verified = {}
    /\ ui = InitialUi
    /\ req = NoRequest
    /\ yelp = NoYelpCall
    /\ resp = NoResponse
    /\ inflight = {}

NextNearby ==
    \/ \E r \in Arriving(NearbyRequests) : SearchNearbyInvalid(r)
    \/ \E r \in Arriving(NearbyRequests), o \in YelpFailures :
          SearchNearbyUpstreamFails(r, o)
    \/ \E r \in Arriving(NearbyRequests) :
          \E raw \in YelpNearbyPages(<<r.latitude, r.longitude>>, r.limit) :
              SearchNearby(r, raw)
    \/ Deliver

SpecNearby == InitNearby /\ [][NextNearby]_vars

(***************************************************************************)
(* Search router: GET /search.                                             *)
(***************************************************************************)
\* The restaurant_cache row the seeding job stores for a Yelp business.
CacheRow(b) ==
    [yelp_id |-> b.id, name |-> <<"name", b.id>>,
     location_code |-> b.location_code, coordinates |-> b.coordinates,
     price |-> b.price, rating |-> b.rating, review_count |-> b.review_count,
     categories |-> <<"restaurants">>, phone |-> <<"phone", b.id>>,
     address |-> <<"address", b.id>>, provider |-> "yelp"]

FromCacheColumnsOnly(row) ==
    [id |-> row.yelp_id, name |-> row.name, rating |-> row.rating,
     price |-> row.price, categories |-> row.categories,
     distance |-> NoDistance, review_count |-> row.review_count,
     address |-> row.address, phone |-> row.phone,
     coordinates |-> row.coordinates]

\* The normalized summary of one restaurant_cache row; what the table has no
\* column for is null.
FromCache(row) ==
    [id |-> row.yelp_id, name |-> row.name, rating |-> row.rating,
     price |-> row.price, categories |-> row.categories, image_url |-> Null,
     distance |-> NoDistance, is_open |-> Null,
     review_count |-> row.review_count, address |-> row.address,
     phone |-> row.phone, yelp_url |-> Null, coordinates |-> row.coordinates]

SearchParamsValid(r) ==
    /\ r.limit >= MinLimit /\ r.limit <= MaxLimit
    /\ r.offset >= 0

IsKnownAreaNever(location) == FALSE

\* 6.6 Location switch: location in {MAN,BK,QN,BX,SI}.
IsKnownArea(location) == location \in KnownAreaCodes

RatingUnchecked(rating, rating_min) == TRUE

\* rating_min, when supplied, is a floor on the rating.
RatingAtLeast(rating, rating_min) == rating_min = Missing \/ rating >= rating_min

\* price, when supplied, lists the accepted price tiers.
PriceMatches(price, tiers) == tiers = {} \/ price \in tiers

RatingAscending(a, b) == a.rating < b.rating

\* ORDER BY rating DESC
RatingDescending(a, b) == a.rating > b.rating

\* Rows of equal rating: the one with more reviews first.
TieBreak(a, b) == a.rating = b.rating /\ a.review_count > b.review_count

Before(a, b) == RatingDescending(a, b) \/ TieBreak(a, b)

RECURSIVE SortRows(_)
SortRows(S) ==
    IF S = {} THEN <<>>
    ELSE LET first == CHOOSE x \in S : \A y \in S \ {x} : ~Before(y, x)
         IN  <<first>> \o SortRows(S \ {first})

\* OFFSET offset LIMIT limit
Page(s, offset, limit) == SubSeq(s, offset + 1, Min(Len(s), offset + limit))

\* query_db_search: the cached rows of one area code, filtered, ordered, paged.
QueryDbSearch(r, rows) ==
    LET matching == { row \in rows :
                        /\ row.location_code = r.location
                        /\ PriceMatches(row.price, r.price)
                        /\ RatingAtLeast(row.rating, r.rating_min) }
        page == Page(SortRows(matching), r.offset, r.limit)
    IN  [i \in 1..Len(page) |-> FromCache(page[i])]

\* call_yelp_search: Yelp applies query, location, price, limit and offset
\* itself; the rating floor is applied here, over the page Yelp returned.
PostFilterRating(r, raw) ==
    SelectSeq([i \in 1..Len(raw) |-> Transform(raw[i])],
              LAMBDA x : RatingAtLeast(x.rating, r.rating_min))

\* Any page of at most limit businesses, none with a distance (no center).
YelpSearchPages(limit) ==
    { [i \in 1..Len(p) |-> YelpBusiness(p[i], NoDistance)] :
        p \in PagesOf(YelpBusinesses, Min(limit, MaxUpstream)) }

SearchSuccess(source, results) ==
    [status |-> "success", source |-> source, total |-> Len(results),
     restaurants |-> results]

CacheFallback(r, rows, outcome) == SearchSuccess("cache", QueryDbSearch(r, rows))

\* 6.8 Error handling: a failed Yelp call is returned as {detail, code}.
SearchFailure(r, rows, outcome) == UpstreamError(outcome)

SearchRequests ==
    { [endpoint |-> "search", q |-> "pizza", location |-> loc, price |-> pr,
       rating_min |-> rm, limit |-> lim, offset |-> off] :
        loc \in {"MAN", "BK", "QN", "Brooklyn, NY"},
        pr \in {{}, {"$$"}},
        rm \in {Missing, 45},
        lim \in {0, 1, 5, 51},
        off \in {-1, 0, 1} }

\* search_restaurants, rejected by parameter validation.
SearchInvalid(r) ==
    /\ Idle
    /\ ~SearchParamsValid(r)
    /\ req' = r
    /\ yelp' = NoYelpCall
    /\ resp' = ValidationError
    /\ UNCHANGED <<store, inflight, verified, ui>>

\* search_restaurants on a borough code: answered from restaurant_cache.
SearchCached(r) ==
    /\ Idle
    /\ SearchParamsValid(r)
    /\ IsKnownArea(r.location)
    /\ req' = r
    /\ yelp' = NoYelpCall
    /\ resp' = SearchSuccess("cache", QueryDbSearch(r, cache))
    /\ UNCHANGED <<store, inflight, verified, ui>>

\* search_restaurants on any other location: answered from the Yelp API.
SearchYelp(r, raw) ==
    /\ Idle
    /\ SearchParamsValid(r)
    /\ ~IsKnownArea(r.location)
    /\ req' = r
    /\ yelp' = [called |-> TRUE, endpoint |-> "search_businesses",
                outcome |-> "ok", businesses |-> raw]
    /\ resp' = SearchSuccess("yelp_api", PostFilterRating(r, raw))
    /\ UNCHANGED <<store, inflight, verified, ui>>

\* search_restaurants on any other location, the Yelp call failing.
SearchYelpFails(r, outcome) ==
    /\ Idle
    /\ SearchParamsValid(r)
    /\ ~IsKnownArea(r.location)
    /\ req' = r
    /\ yelp' = [called |-> TRUE, endpoint |-> "search_businesses",
                outcome |-> outcome, businesses |-> <<>>]
    /\ resp' = SearchFailure(r, cache, outcome)
    /\ UNCHANGED <<store, inflight, verified, ui>>

\* The cache as some run of the seeding job left it: one row per seeded business.
InitSearch ==
    /\ cache \in { { CacheRow(b) : b \in B } : B \in SUBSET YelpBusinesses }
    /\ wishlist = <<>>
    /\ reviews = <<>>
    /\ flags = <<>>
    /\ nextId = 1
    /\ users = <<>>
    /\ verified = {}
    /\ ui = InitialUi
    /\ req = NoRequest
    /\ yelp = NoYelpCall
    /\ resp = NoResponse
    /\ inflight = {}

NextSearch ==
    \/ \E r \in Arriving(SearchRequests) : SearchInvalid(r)
    \/ \E r \in Arriving(SearchRequests) : SearchCached(r)
    \/ \E r \in Arriving(SearchRequests) :
          \E raw \in YelpSearchPages(r.limit) : SearchYelp(r, raw)
    \/ \E r \in Arriving(SearchRequests), o \in YelpFailures : SearchYelpFails(r, o)
    \/ Deliver

SpecSearch == InitSearch /\ [][NextSearch]_vars

(***************************************************************************)
(* Restaurants router: GET /restaurants/{yelp_id}.                         *)
(***************************************************************************)
MaxYelpReviews == 3

\* A record without the fields in omitted.
Without(record, omitted) == [f \in DOMAIN record \ omitted |-> record[f]]

\* get_business(id): what Yelp holds for a business today.
YelpDetail(b) ==
    [id |-> b.id, rating |-> b.rating, price |-> b.price,
     review_count |-> b.review_count + 7, coordinates |-> b.coordinates,
     phone |-> "+1212", hours |-> "11:00-22:00", photos |-> <<"photo">>]

\* Sets of fields a live answer may leave out.
OmittedFields == { {}, {"price"}, {"phone"}, {"price", "review_count", "hours"} }

\* The answers get_business(id) may give when it succeeds.
YelpDetailAnswers(yelp_id) ==
    { Without(YelpDetail(b), o) :
        b \in { x \in YelpBusinesses : x.id = yelp_id }, o \in OmittedFields }

\* The ways get_business(id) and get_reviews(id) fail.
YelpDetailFailures == YelpFailures \cup {"not_found"}

\* The answers get_reviews(id) may give when it succeeds.
YelpReviewAnswers == { <<>>, <<"r1">>, <<"r1", "r2", "r3">>, <<"r1", "r2", "r3", "r4">> }

\* 6.11 Cache check: the restaurant_cache rows of an id, as detail fields.
CacheDetail(rows, yelp_id) ==
    { [id |-> row.yelp_id, location_code |-> row.location_code,
       rating |-> row.rating, price |-> row.price,
       review_count |-> row.review_count, coordinates |-> row.coordinates] :
        row \in { x \in rows : x.yelp_id = yelp_id } }

MergeCacheWins(live, cached) ==
    [f \in DOMAIN live \cup DOMAIN cached |->
        IF f \in DOMAIN cached THEN cached[f] ELSE live[f]]

\* 6.12 Yelp enrich: a field of the live answer overwrites the cached one.
Merge(live, cached) ==
    [f \in DOMAIN live \cup DOMAIN cached |->
        IF f \in DOMAIN live THEN live[f] ELSE cached[f]]

\* The merged record of a live answer and the cache rows found (none or one).
MergedDetail(live, found) ==
    IF found = {} THEN live ELSE Merge(live, CHOOSE c \in found : TRUE)

\* 6.13 Yelp reviews: capped to 3; none when the call failed.
DetailReviews(outcome, answer) ==
    IF outcome = "ok"
    THEN SubSeq(answer, 1, Min(Len(answer), MaxYelpReviews))
    ELSE <<>>

DetailSuccess(restaurant, yelp_reviews) ==
    [status |-> "success", source |-> "yelp_api", restaurant |-> restaurant,
     yelp_reviews |-> yelp_reviews]

DetailResponseStrict(restaurant, outcome, answer) ==
    IF outcome = "ok" THEN DetailSuccess(restaurant, DetailReviews(outcome, answer))
    ELSE UpstreamError(outcome)

\* 6.14 Response mapper: the detail with whatever reviews were fetched.
DetailResponse(restaurant, outcome, answer) ==
    DetailSuccess(restaurant, DetailReviews(outcome, answer))

DetailCacheOnly(found, outcome) ==
    IF found = {} THEN UpstreamError(outcome)
    ELSE [status |-> "success", source |-> "cache",
          restaurant |-> CHOOSE c \in found : TRUE, yelp_reviews |-> <<>>]

\* The answer when get_business(id) failed.
DetailFailure(found, outcome) ==
    IF outcome = "not_found" THEN ErrorResponse(404, "not_found")
    ELSE UpstreamError(outcome)

\* get_restaurant, get_business(id) succeeding.
GetRestaurant(yelp_id, live, reviews_outcome, answer) ==
    /\ Idle
    /\ req' = [endpoint |-> "detail", yelp_id |-> yelp_id]
    /\ yelp' = [called |-> TRUE, endpoint |-> "get_business", outcome |-> "ok",
                businesses |-> <<live>>, reviews_outcome |-> reviews_outcome,
                reviews |-> answer]
    /\ resp' = DetailResponse(MergedDetail(live, CacheDetail(cache, yelp_id)),
                              reviews_outcome, answer)
    /\ UNCHANGED <<store, inflight, verified, ui>>

\* get_restaurant, get_business(id) failing.
GetRestaurantFails(yelp_id, outcome) ==
    /\ Idle
    /\ req' = [endpoint |-> "detail", yelp_id |-> yelp_id]
    /\ yelp' = [called |-> TRUE, endpoint |-> "get_business", outcome |-> outcome,
                businesses |-> <<>>, reviews_outcome |-> "none", reviews |-> <<>>]
    /\ resp' = DetailFailure(CacheDetail(cache, yelp_id), outcome)
    /\ UNCHANGED <<store, inflight, verified, ui>>

DetailIds == {"m1", "k1", "zz"}

InitDetail == InitSearch

NextDetail ==
    \/ \E id \in Arriving(DetailIds) : \E live \in YelpDetailAnswers(id) :
          \E answer \in YelpReviewAnswers : GetRestaurant(id, live, "ok", answer)
    \/ \E id \in Arriving(DetailIds) : \E live \in YelpDetailAnswers(id) :
          \E o \in YelpFailures : GetRestaurant(id, live, o, <<>>)
    \/ \E id \in Arriving(DetailIds), o \in YelpDetailFailures :
          GetRestaurantFails(id, o)
    \/ Deliver

SpecDetail == InitDetail /\ [][NextDetail]_vars

(***************************************************************************)
(* Ownership-scoped handlers: wishlist, reviews, flags.  Every request     *)
(* carries the user id the identity check resolved from its bearer token.  *)
(***************************************************************************)
Users == {"u1", "u2"}

Restaurants == {"m1"}

NotFound == ErrorResponse(404, "not_found")

Conflict == ErrorResponse(409, "conflict")

Success == [status |-> "success"]

\* The rows of a table for one (user_id, yelp_id) pair.
RowsOf(table, user, yelp_id) ==
    SelectSeq(table, LAMBDA row : row.user_id = user /\ row.yelp_id = yelp_id)

HasRowNever(table, user, yelp_id) == FALSE

\* SELECT ... WHERE user_id = :user AND yelp_id = :yelp_id finds a row.
HasRow(table, user, yelp_id) == Len(RowsOf(table, user, yelp_id)) > 0

\* DELETE ... WHERE user_id = :user AND yelp_id = :yelp_id
DeleteRows(table, user, yelp_id) ==
    SelectSeq(table, LAMBDA row : ~(row.user_id = user /\ row.yelp_id = yelp_id))

UniqueUnenforced(table, user, yelp_id) == TRUE

\* UNIQUE(user_id, yelp_id): whether the store accepts one more row of the pair.
UniquePairFree(table, user, yelp_id) == Len(RowsOf(table, user, yelp_id)) = 0

\* The write of POST /wishlist, given what its lookup saw (seen: the row exists).
WishlistAddWrite(table, user, yelp_id, seen) ==
    IF seen THEN [table |-> table, resp |-> Success]
    ELSE IF UniquePairFree(table, user, yelp_id)
         THEN [table |-> Append(table, [user_id |-> user, yelp_id |-> yelp_id]),
               resp |-> Success]
         ELSE [table |-> table, resp |-> Conflict]

\* The write of DELETE /wishlist/{yelp_id} and of DELETE /flags/{yelp_id}.
OwnedDeleteWrite(table, user, yelp_id, seen) ==
    IF seen THEN [table |-> DeleteRows(table, user, yelp_id), resp |-> Success]
    ELSE [table |-> table, resp |-> NotFound]

FlagsRowOverwrite(user, yelp_id, body, stored) ==
    [user_id |-> user, yelp_id |-> yelp_id,
     visited |-> IF "visited" \in DOMAIN body THEN body.visited ELSE FALSE,
     promo_opt_in |-> IF "promo_opt_in" \in DOMAIN body THEN body.promo_opt_in
                      ELSE FALSE]

\* The flags row a PUT body yields: a boolean the body leaves out keeps the
\* stored value, or is false when there is no stored row.
FlagsRow(user, yelp_id, body, stored) ==
    [user_id |-> user, yelp_id |-> yelp_id,
     visited |-> IF "visited" \in DOMAIN body THEN body.visited
                 ELSE IF Len(stored) > 0 THEN stored[1].visited ELSE FALSE,
     promo_opt_in |-> IF "promo_opt_in" \in DOMAIN body THEN body.promo_opt_in
                      ELSE IF Len(stored) > 0 THEN stored[1].promo_opt_in ELSE FALSE]

\* The write of PUT /flags/{yelp_id}, given the rows its lookup saw.
FlagsUpsertWrite(table, user, yelp_id, body, stored) ==
    IF Len(stored) > 0
    THEN IF HasRow(table, user, yelp_id)
         THEN [table |-> [i \in 1..Len(table) |->
                            IF table[i].user_id = user /\ table[i].yelp_id = yelp_id
                            THEN FlagsRow(user, yelp_id, body, stored)
                            ELSE table[i]],
               resp |-> Success]
         ELSE [table |-> table, resp |-> Conflict]
    ELSE IF UniquePairFree(table, user, yelp_id)
         THEN [table |-> Append(table, FlagsRow(user, yelp_id, body, stored)),
               resp |-> Success]
         ELSE [table |-> table, resp |-> Conflict]

FlagBodies ==
    { [visited |-> TRUE], [visited |-> FALSE],
      [promo_opt_in |-> TRUE], [promo_opt_in |-> FALSE],
      [visited |-> TRUE, promo_opt_in |-> TRUE] }

ReviewValidAny(rating, text_len) == TRUE

ReviewValid(rating, text_len) ==
    /\ rating >= MinRating /\ rating <= MaxRating
    /\ text_len <= MaxTextLen

ReviewById(table, review_id) == SelectSeq(table, LAMBDA row : row.id = review_id)

OwnsReviewAnyone(row, user) == TRUE

\* Users can only delete their own reviews.
OwnsReview(row, user) == row.user_id = user

\* POST /wishlist
AddToWishlist(user, yelp_id) ==
    /\ Idle
    /\ LET w == WishlistAddWrite(wishlist, user, yelp_id,
                                 HasRow(wishlist, user, yelp_id))
       IN  /\ wishlist' = w.table
           /\ resp' = w.resp
    /\ req' = [endpoint |-> "wishlist_add", user |-> user, yelp_id |-> yelp_id]
    /\ yelp' = NoYelpCall
    /\ UNCHANGED <<cache, reviews, flags, nextId, inflight, users, verified, ui>>

\* DELETE /wishlist/{yelp_id}
RemoveFromWishlist(user, yelp_id) ==
    /\ Idle
    /\ LET w == OwnedDeleteWrite(wishlist, user, yelp_id,
                                 HasRow(wishlist, user, yelp_id))
       IN  /\ wishlist' = w.table
           /\ resp' = w.resp
    /\ req' = [endpoint |-> "wishlist_remove", user |-> user, yelp_id |-> yelp_id]
    /\ yelp' = NoYelpCall
    /\ UNCHANGED <<cache, reviews, flags, nextId, inflight, users, verified, ui>>

\* PUT /flags/{yelp_id}
UpsertFlags(user, yelp_id, body) ==
    /\ Idle
    /\ LET w == FlagsUpsertWrite(flags, user, yelp_id, body,
                                 RowsOf(flags, user, yelp_id))
       IN  /\ flags' = w.table
           /\ resp' = w.resp
    /\ req' = [endpoint |-> "flags_upsert", user |-> user, yelp_id |-> yelp_id,
               body |-> body]
    /\ yelp' = NoYelpCall
    /\ UNCHANGED <<cache, wishlist, reviews, nextId, inflight, users, verified, ui>>

\* DELETE /flags/{yelp_id}
DeleteFlags(user, yelp_id) ==
    /\ Idle
    /\ LET w == OwnedDeleteWrite(flags, user, yelp_id, HasRow(flags, user, yelp_id))
       IN  /\ flags' = w.table
           /\ resp' = w.resp
    /\ req' = [endpoint |-> "flags_delete", user |-> user, yelp_id |-> yelp_id]
    /\ yelp' = NoYelpCall
    /\ UNCHANGED <<cache, wishlist, reviews, nextId, inflight, users, verified, ui>>

\* POST /reviews
CreateReview(user, yelp_id, rating, text_len) ==
    /\ Idle
    /\ nextId <= MaxReviews
    /\ IF ReviewValid(rating, text_len)
       THEN /\ reviews' = Append(reviews, [id |-> nextId, user_id |-> user,
                                           yelp_id |-> yelp_id, rating |-> rating,
                                           text_len |-> text_len])
            /\ nextId' = nextId + 1
            /\ resp' = Success
       ELSE /\ UNCHANGED <<reviews, nextId, users, verified, ui>>
            /\ resp' = ValidationError
    /\ req' = [endpoint |-> "review_create", user |-> user, yelp_id |-> yelp_id,
               rating |-> rating, text_len |-> text_len]
    /\ yelp' = NoYelpCall
    /\ UNCHANGED <<cache, wishlist, flags, inflight, users, verified, ui>>

\* DELETE /reviews/{review_id}
DeleteReview(user, review_id) ==
    /\ Idle
    /\ LET found == ReviewById(reviews, review_id)
       IN  IF Len(found) > 0 /\ OwnsReview(found[1], user)
           THEN /\ reviews' = SelectSeq(reviews, LAMBDA row : row.id # review_id)
                /\ resp' = Success
           ELSE /\ UNCHANGED reviews
                /\ resp' = NotFound
    /\ req' = [endpoint |-> "review_delete", user |-> user, review_id |-> review_id]
    /\ yelp' = NoYelpCall
    /\ UNCHANGED <<cache, wishlist, flags, nextId, inflight, users, verified, ui>>

\* PATCH /reviews/{review_id}
UpdateReview(user, review_id, rating, text_len) ==
    /\ Idle
    /\ LET found == ReviewById(reviews, review_id)
       IN  IF ~ReviewValid(rating, text_len)
           THEN /\ UNCHANGED reviews
                /\ resp' = ValidationError
           ELSE IF Len(found) > 0 /\ OwnsReview(found[1], user)
           THEN /\ reviews' = [i \in 1..Len(reviews) |->
                                 IF reviews[i].id = review_id
                                 THEN [reviews[i] EXCEPT !.rating = rating,
                                                         !.text_len = text_len]
                                 ELSE reviews[i]]
                /\ resp' = Success
           ELSE /\ UNCHANGED reviews
                /\ resp' = NotFound
    /\ req' = [endpoint |-> "review_update", user |-> user, review_id |-> review_id,
               rating |-> rating, text_len |-> text_len]
    /\ yelp' = NoYelpCall
    /\ UNCHANGED <<cache, wishlist, flags, nextId, inflight, users, verified, ui>>

InitCrud ==
    /\ cache = {}
    /\ wishlist = <<>>
    /\ reviews = <<>>
    /\ flags = <<>>
    /\ nextId = 1
    /\ users = <<>>
    /\ verified = {}
    /\ ui = InitialUi
    /\ req = NoRequest
    /\ yelp = NoYelpCall
    /\ resp = NoResponse
    /\ inflight = {}

NextCrud ==
    \/ \E u \in Arriving(Users), y \in Restaurants : AddToWishlist(u, y)
    \/ \E u \in Arriving(Users), y \in Restaurants : RemoveFromWishlist(u, y)
    \/ \E u \in Arriving(Users), y \in Restaurants, b \in FlagBodies :
          UpsertFlags(u, y, b)
    \/ \E u \in Arriving(Users), y \in Restaurants : DeleteFlags(u, y)
    \/ \E u \in Arriving(Users), y \in Restaurants, rating \in {0, 1, 5, 6},
          text_len \in {10, 1001} : CreateReview(u, y, rating, text_len)
    \/ \E u \in Arriving(Users), id \in 1..MaxReviews : DeleteReview(u, id)
    \/ Deliver

SpecCrud == InitCrud /\ [][NextCrud]_vars

\* The review endpoints alone, with ratings and text lengths on both sides
\* of their bounds.
NextReview ==
    \/ \E u \in Arriving(Users), y \in Restaurants, rating \in {0, 3, 6},
          text_len \in {10, 1001} : CreateReview(u, y, rating, text_len)
    \/ \E u \in Arriving(Users), id \in 1..(MaxReviews + 1),
          rating \in {0, 1, 5, 6}, text_len \in {0, 1000, 1001} :
          UpdateReview(u, id, rating, text_len)
    \/ \E u \in Arriving(Users), id \in 1..MaxReviews : DeleteReview(u, id)
    \/ Deliver

SpecReview == InitCrud /\ [][NextReview]_vars

(***************************************************************************)
(* Writers of restaurant_cache: the seeding job and the wishlist's         *)
(* detail refresh, next to the user operations.                            *)
(***************************************************************************)
\* The businesses the seeding job and the refresh come across here.
SeededBusinesses == { b \in YelpBusinesses : b.id \in {"m1", "k1"} }

\* What a fetch of a business may yield: the data as first seen, or as
\* changed since.
FetchedRows(b) ==
    { CacheRow(b), CacheRow([b EXCEPT !.review_count = @ + 7]) }

InsertCache(rows, row) == rows \cup {row}

\* Upsert logic: updates the record of the yelp_id or creates it.
UpsertCache(rows, row) ==
    { x \in rows : x.yelp_id # row.yelp_id } \cup {row}

\* The seeding job storing one fetched business.
SeedUpsert(row) ==
    /\ Idle
    /\ cache' = UpsertCache(cache, row)
    /\ UNCHANGED <<wishlist, reviews, flags, nextId, users, req, yelp, resp,
                   inflight, verified, ui>>

\* POST /wishlist/refresh-details: backfills the cache row of the user's
\* wishlist items whose detail fetch succeeds.
RefreshDetails(user, outcome, row) ==
    /\ Idle
    /\ LET wanted == { i \in 1..Len(wishlist) :
                          /\ wishlist[i].user_id = user
                          /\ wishlist[i].yelp_id = row.yelp_id }
           updated == IF outcome = "ok" THEN Cardinality(wanted) ELSE 0
       IN  /\ cache' = IF updated > 0 THEN UpsertCache(cache, row) ELSE cache
           /\ resp' = [status |-> "success", updated |-> updated,
                       failed |-> Cardinality(wanted) - updated,
                       total |-> Cardinality(wanted)]
    /\ req' = [endpoint |-> "wishlist_refresh", user |-> user]
    /\ yelp' = [called |-> TRUE, endpoint |-> "get_business", outcome |-> outcome,
                businesses |-> <<>>]
    /\ UNCHANGED <<wishlist, reviews, flags, nextId, inflight, users, verified, ui>>

NextCache ==
    \/ \E b \in Arriving(SeededBusinesses) : \E row \in FetchedRows(b) : SeedUpsert(row)
    \/ \E u \in Arriving(Users), o \in {"ok", "timeout"} :
          \E b \in { x \in SeededBusinesses : x.id \in Restaurants } :
             \E row \in FetchedRows(b) : RefreshDetails(u, o, row)
    \/ \E u \in Arriving(Users), y \in Restaurants : AddToWishlist(u, y)
    \/ \E u \in Arriving(Users), y \in Restaurants : RemoveFromWishlist(u, y)
    \/ \E u \in Arriving(Users), y \in Restaurants : UpsertFlags(u, y, [visited |-> TRUE])
    \/ \E u \in Arriving(Users), y \in Restaurants : DeleteFlags(u, y)
    \/ \E u \in Arriving(Users), y \in Restaurants : CreateReview(u, y, 5, 10)
    \/ \E u \in Arriving(Users), id \in 1..MaxReviews : UpdateReview(u, id, 4, 10)
    \/ \E u \in Arriving(Users), id \in 1..MaxReviews : DeleteReview(u, id)
    \/ Deliver

SpecCache == InitCrud /\ [][NextCache]_vars

(***************************************************************************)
(* The same handlers under concurrency.  A handler's lookup and its write  *)
(* are separate statements against the store: Begin is the lookup, Commit  *)
(* the write and the response.  Other requests run in between.             *)
(***************************************************************************)
RaceBodies == { [visited |-> TRUE], [promo_opt_in |-> TRUE] }

\* The races of interest are between requests of one user on one restaurant.
RaceUsers == {"u1"}

OnWishlist(endpoint) == endpoint \in {"wishlist_add", "wishlist_remove"}

FreeSlots == (1..MaxInflight) \ { x.slot : x \in inflight }

Begin(endpoint, user, yelp_id, body) ==
    /\ FreeSlots # {}
    /\ inflight' = inflight \cup
          {[slot |-> CHOOSE k \in FreeSlots : \A j \in FreeSlots : k <= j,
            endpoint |-> endpoint, user |-> user, yelp_id |-> yelp_id,
            body |-> body,
            stored |-> RowsOf(IF OnWishlist(endpoint) THEN wishlist ELSE flags,
                              user, yelp_id)]}
    /\ UNCHANGED <<store, req, yelp, resp, verified, ui>>

Commit(x) ==
    /\ x \in inflight
    /\ LET seen == Len(x.stored) > 0
           w == CASE x.endpoint = "wishlist_add" ->
                       WishlistAddWrite(wishlist, x.user, x.yelp_id, seen)
                  [] x.endpoint = "wishlist_remove" ->
                       OwnedDeleteWrite(wishlist, x.user, x.yelp_id, seen)
                  [] x.endpoint = "flags_upsert" ->
                       FlagsUpsertWrite(flags, x.user, x.yelp_id, x.body, x.stored)
                  [] x.endpoint = "flags_delete" ->
                       OwnedDeleteWrite(flags, x.user, x.yelp_id, seen)
       IN  /\ wishlist' = IF OnWishlist(x.endpoint) THEN w.table ELSE wishlist
           /\ flags' = IF OnWishlist(x.endpoint) THEN flags ELSE w.table
           /\ resp' = w.resp
    /\ req' = [endpoint |-> x.endpoint, user |-> x.user, yelp_id |-> x.yelp_id,
               raced |-> (x.stored # RowsOf(IF OnWishlist(x.endpoint)
                                            THEN wishlist ELSE flags,
                                            x.user, x.yelp_id))]
    /\ yelp' = NoYelpCall
    /\ inflight' = inflight \ {x}
    /\ UNCHANGED <<cache, reviews, nextId, users, verified, ui>>

InitRace == InitCrud

NextRace ==
    \/ \E e \in {"wishlist_add", "wishlist_remove", "flags_delete"},
          u \in RaceUsers, y \in Restaurants : Begin(e, u, y, <<>>)
    \/ \E u \in RaceUsers, y \in Restaurants, b \in RaceBodies :
          Begin("flags_upsert", u, y, b)
    \/ \E x \in inflight : Commit(x)

SpecRace == InitRace /\ [][NextRace]_vars

(***************************************************************************)
(* Sign-in: the browser's routes and auth provider, and the users table    *)
(* behind the identity check.                                              *)
(***************************************************************************)
\* Firebase subject ids.  s3 is an account made anew under the address of s1.
Subjects == {"s1", "s2", "s3"}

Email(subject) == IF subject = "s2" THEN "b@example.com" ELSE "a@example.com"

UserRow(subject) == [firebase_uid |-> subject, email |-> Email(subject)]

ByEmail(table, email) == SelectSeq(table, LAMBDA row : row.email = email)

ByUid(table, uid) == SelectSeq(table, LAMBDA row : row.firebase_uid = uid)

\* get_current_user: upserts the user by email if new.
GetCurrentUser(table, subject) ==
    IF Len(ByEmail(table, Email(subject))) > 0 THEN table
    ELSE Append(table, UserRow(subject))

\* The registration the auth provider attempts; a duplicate of a stored
\* email or firebase_uid is refused by the unique indexes and ignored.
RegisterUser(table, subject) ==
    IF Len(ByEmail(table, Email(subject))) = 0 /\ Len(ByUid(table, subject)) = 0
    THEN Append(table, UserRow(subject))
    ELSE table

Paths == {"/", "/login", "/r/m1", "/locator", "/me", "/profile", "/restaurant/m1"}

\* App: the element the router renders in the layout for a location.
RouteElement(path) ==
    CASE path = "/" -> "Home"
      [] path = "/login" -> "Login"
      [] path = "/r/m1" -> "RestaurantDetails"
      [] path = "/locator" -> "Locator"
      [] path = "/me" -> "Profile"
      [] OTHER -> "none"

\* Login's effect: with a user it navigates to "/".
Rendered(path, user) ==
    IF RouteElement(path) = "Login" /\ user # "none"
    THEN [path |-> "/", page |-> RouteElement("/")]
    ELSE [path |-> path, page |-> RouteElement(path)]

\* AuthProvider: Firebase's first report of the auth state, with the user of
\* a kept session or none.
AuthStateChanged(firebaseUser) ==
    /\ ui.loading
    /\ ui' = [ui EXCEPT !.path = Rendered(ui.path, firebaseUser).path,
                        !.page = Rendered(ui.path, firebaseUser).page,
                        !.user = firebaseUser, !.loading = FALSE]
    /\ users' = IF firebaseUser # "none" THEN RegisterUser(users, firebaseUser)
                ELSE users
    /\ verified' = IF firebaseUser # "none" THEN verified \cup {firebaseUser}
                   ELSE verified
    /\ UNCHANGED <<cache, wishlist, reviews, flags, nextId, req, yelp, resp, inflight>>

\* Login.handleLogin / handleSignup succeeding: the auth provider hears of
\* the user and registers it, and the page navigates to "/".
HandleLogin(subject) ==
    /\ ui.page = "Login"
    /\ ~ui.loading
    /\ ui.user = "none"
    /\ ui' = [ui EXCEPT !.path = "/", !.page = RouteElement("/"),
                        !.user = subject, !.loading = FALSE]
    /\ users' = RegisterUser(users, subject)
    /\ verified' = verified \cup {subject}
    /\ UNCHANGED <<cache, wishlist, reviews, flags, nextId, req, yelp, resp, inflight>>

\* Layout.handleLogout
HandleLogout ==
    /\ ui.user # "none"
    /\ ui' = [ui EXCEPT !.path = "/login", !.page = RouteElement("/login"),
                        !.user = "none", !.loading = FALSE]
    /\ UNCHANGED <<store, req, yelp, resp, inflight, verified>>

\* A link followed or a location entered.
Navigate(path) ==
    /\ ui' = [ui EXCEPT !.path = Rendered(path, ui.user).path,
                        !.page = Rendered(path, ui.user).page]
    /\ UNCHANGED <<store, req, yelp, resp, inflight, verified>>

\* RestaurantCard, the locator's map popups and the profile's wishlist and
\* review items: to={`/restaurant/${id}`}, meant for the details page.
RestaurantLink == [to |-> "/restaurant/m1", intended |-> "RestaurantDetails"]

\* Layout: the links of the navigation bar.
LayoutLinks(user, loading) ==
    { [to |-> "/", intended |-> "Home"],
      [to |-> "/locator", intended |-> "Locator"] }
    \cup (IF loading THEN {}
          ELSE IF user # "none" THEN { [to |-> "/profile", intended |-> "Profile"] }
          ELSE { [to |-> "/login", intended |-> "Login"] })

\* The links a rendered page offers: those of the layout and its own.  A
\* location no route matches renders nothing.
LinksOn(page, user, loading) ==
    IF page = "none" THEN {}
    ELSE LayoutLinks(user, loading)
         \cup (CASE page \in {"Home", "Locator"} -> { RestaurantLink }
                 [] page = "Profile" ->
                        { RestaurantLink, [to |-> "/", intended |-> "Home"] }
                 [] page = "RestaurantDetails" ->
                        { [to |-> "/", intended |-> "Home"] }
                 [] OTHER -> {})

LinkTargets ==
    UNION { LinksOn(page, user, loading) :
              page \in {"Home", "Login", "RestaurantDetails", "Locator", "Profile"},
              user \in Subjects \cup {"none"}, loading \in BOOLEAN }

\* A link of the rendered page is followed.
FollowLink(link) ==
    /\ link \in LinksOn(ui.page, ui.user, ui.loading)
    /\ ui' = [ui EXCEPT !.path = Rendered(link.to, ui.user).path,
                        !.page = Rendered(link.to, ui.user).page]
    /\ UNCHANGED <<store, req, yelp, resp, inflight, verified>>

\* GET /auth/me with the signed-in user's token.
AuthMe ==
    /\ Idle
    /\ ui.user # "none"
    /\ users' = GetCurrentUser(users, ui.user)
    /\ verified' = verified \cup {ui.user}
    /\ req' = [endpoint |-> "auth_me", subject |-> ui.user]
    /\ yelp' = NoYelpCall
    /\ resp' = [status |-> "success",
                user |-> ByEmail(GetCurrentUser(users, ui.user), Email(ui.user))[1]]
    /\ UNCHANGED <<cache, wishlist, reviews, flags, nextId, inflight, ui>>

NextAuth ==
    \/ \E s \in Subjects \cup {"none"} : AuthStateChanged(s)
    \/ \E s \in Subjects : HandleLogin(s)
    \/ HandleLogout
    \/ \E path \in Paths : Navigate(path)
    \/ \E link \in LinkTargets : FollowLink(link)
    \/ AuthMe
    \/ Deliver

SpecAuth == InitCrud /\ [][NextAuth]_vars

(***************************************************************************)
(* The validated endpoints side by side: search, nearby, review create     *)
(* and review update, with parameters on both sides of their bounds.       *)
(***************************************************************************)
BoundarySearchRequests ==
    { r \in SearchRequests :
        r.location \in {"MAN", "Brooklyn, NY"} /\ r.price = {}
        /\ r.rating_min = Missing }

BoundaryNearbyRequests == { r \in NearbyRequests : r.limit = 2 }

NextValidation ==
    \/ \E r \in Arriving(BoundarySearchRequests) : SearchInvalid(r)
    \/ \E r \in Arriving(BoundarySearchRequests) : SearchCached(r)
    \/ \E r \in Arriving(BoundarySearchRequests) :
          \E raw \in YelpSearchPages(1) : SearchYelp(r, raw)
    \/ \E r \in Arriving(BoundaryNearbyRequests) : SearchNearbyInvalid(r)
    \/ \E r \in Arriving(BoundaryNearbyRequests) :
          \E raw \in YelpNearbyPages(<<r.latitude, r.longitude>>, 1) :
             SearchNearby(r, raw)
    \/ \E u \in Arriving(Users), y \in Restaurants, rating \in {0, 1, 5, 6},
          text_len \in {1000, 1001} : CreateReview(u, y, rating, text_len)
    \/ \E u \in Arriving(Users), id \in 1..(MaxReviews + 1),
          rating \in {0, 5, 6}, text_len \in {1000, 1001} :
          UpdateReview(u, id, rating, text_len)
    \/ Deliver

SpecValidation == InitSearch /\ [][NextValidation]_vars

(***************************************************************************)
(* Claims about the nearby router.                                         *)
(***************************************************************************)
NearbyAnswered == req.endpoint = "nearby" /\ resp.status = "success"

\* C1: every restaurant of a nearby response has a distance, and that
\* distance is at most the requested radius, whatever Yelp returned.
C1_NearbyWithinRadius ==
    NearbyAnswered =>
        \A i \in 1..Len(resp.restaurants) :
            /\ resp.restaurants[i].distance >= 0
            /\ resp.restaurants[i].distance <= req.radius

\* Yelp returned a business farther away than the radius and one inside it.
C1_Witness ==
    /\ NearbyAnswered
    /\ \E i \in 1..Len(yelp.businesses) : yelp.businesses[i].distance > req.radius
    /\ Len(resp.restaurants) > 0

InResponse(id) == \E i \in 1..Len(resp.restaurants) : resp.restaurants[i].id = id

\* C2 as stated: a Yelp business with no reported distance is returned exactly
\* when the distance computed from its coordinates is within the radius.
C2_AbsentDistanceComputed ==
    NearbyAnswered =>
        \A i \in 1..Len(yelp.businesses) :
            LET b == yelp.businesses[i]
            IN  b.distance = NoDistance =>
                    (InResponse(b.id) <=>
                        DistanceFromCoords(<<req.latitude, req.longitude>>,
                                           b.coordinates) <= req.radius)

\* C2 as the router behaves: a Yelp business is returned exactly when Yelp
\* reported a distance for it and that distance is within the radius; one with
\* no reported distance is dropped wherever its coordinates are.
C2_AbsentDistanceDropped ==
    NearbyAnswered =>
        \A i \in 1..Len(yelp.businesses) :
            LET b == yelp.businesses[i]
            IN  InResponse(b.id) <=>
                    (b.distance # NoDistance /\ b.distance <= req.radius)

\* Yelp returned a business with no distance whose coordinates are in the radius.
C2_Witness ==
    /\ NearbyAnswered
    /\ \E i \in 1..Len(yelp.businesses) :
          /\ yelp.businesses[i].distance = NoDistance
          /\ DistanceFromCoords(<<req.latitude, req.longitude>>,
                                yelp.businesses[i].coordinates) <= req.radius
          /\ ~InResponse(yelp.businesses[i].id)

AllFilteredOut ==
    /\ req.endpoint = "nearby"
    /\ yelp.called /\ yelp.outcome = "ok"
    /\ Len(yelp.businesses) > 0
    /\ \A i \in 1..Len(yelp.businesses) :
          \/ yelp.businesses[i].distance = NoDistance
          \/ yelp.businesses[i].distance > req.radius

SearchAnswered ==
    req.endpoint = "search" /\ resp.status # "none" /\ resp.status # "error"

SearchValid ==
    /\ req.endpoint = "search"
    /\ req.limit >= 1 /\ req.limit <= 50 /\ req.offset >= 0

\* C4: a search on a known area code is answered from the cache rows of that
\* area alone, with no Yelp call and the "cache" marker; a search on any other
\* location calls Yelp and never carries the "cache" marker.
C4_AreaCodeRouting ==
    SearchValid =>
        IF req.location \in {"MAN", "BK", "QN", "BX", "SI"}
        THEN /\ ~yelp.called
             /\ resp.status = "success"
             /\ resp.source = "cache"
             /\ \A i \in 1..Len(resp.restaurants) :
                   \E row \in cache : /\ row.yelp_id = resp.restaurants[i].id
                                      /\ row.location_code = req.location
        ELSE /\ yelp.called
             /\ yelp.endpoint = "search_businesses"
             /\ resp.status = "success" => resp.source # "cache"

\* A borough search that returned rows while the cache holds other boroughs too.
C4_Witness ==
    /\ SearchValid
    /\ req.location = "MAN"
    /\ Len(resp.restaurants) >= 2
    /\ \E row \in cache : row.location_code = "BK"

C4_WitnessLive ==
    /\ SearchValid
    /\ req.location = "Brooklyn, NY"
    /\ yelp.called
    /\ resp.status = "success"
    /\ Len(resp.restaurants) >= 1
    /\ \E row \in cache : row.yelp_id = resp.restaurants[1].id

\* The cached rows a borough search must choose from.
Matching ==
    { row \in cache :
        /\ row.location_code = req.location
        /\ (req.price = {} \/ row.price \in req.price)
        /\ (req.rating_min = Missing \/ row.rating >= req.rating_min) }

\* The number of matching rows that come before row: higher rating first, and
\* among equal ratings the higher review count first.
Rank(row) ==
    Cardinality({ other \in Matching :
                    \/ other.rating > row.rating
                    \/ (other.rating = row.rating
                        /\ other.review_count > row.review_count) })

MatchingCount == Cardinality(Matching)

C5_WitnessTie ==
    /\ SearchValid
    /\ req.location = "MAN" /\ req.offset = 1 /\ req.limit = 5
    /\ Len(resp.restaurants) >= 2
    /\ resp.restaurants[1].rating = resp.restaurants[2].rating

LiveSearch ==
    SearchValid /\ req.location \notin {"MAN", "BK", "QN", "BX", "SI"}

\* C6: a search on a location that is no area code returns at most limit
\* restaurants, each rated at least rating_min when rating_min is set.
C6_LiveLimitAndRatingFloor ==
    (LiveSearch /\ resp.status = "success") =>
        /\ Len(resp.restaurants) <= req.limit
        /\ req.rating_min # Missing =>
              \A i \in 1..Len(resp.restaurants) :
                  resp.restaurants[i].rating >= req.rating_min

\* Yelp returned a business under the floor, and another one that was kept.
C6_Witness ==
    /\ LiveSearch /\ resp.status = "success"
    /\ req.rating_min = 45
    /\ \E i \in 1..Len(yelp.businesses) : yelp.businesses[i].rating < 45
    /\ Len(resp.restaurants) >= 1
    /\ Len(resp.restaurants) < Len(yelp.businesses)

\* C7: when the Yelp call of a search on a location that is no area code
\* fails, the answer is an error with an HTTP status and a code, and carries
\* no restaurants: the cache is not used instead.
C7_UpstreamFailureIsTypedError ==
    (LiveSearch /\ yelp.called /\ yelp.outcome \in {"timeout", "rate_limited", "malformed"}) =>
        /\ resp.status = "error"
        /\ DOMAIN resp = {"status", "http_status", "code"}
        /\ resp.http_status >= 400 /\ resp.http_status <= 599
        /\ resp.code \in {"rate_limited", "upstream_error"}

\* The Yelp call failed while the cache held rows.
C7_Witness ==
    /\ LiveSearch
    /\ yelp.called /\ yelp.outcome = "timeout"
    /\ resp.status = "error"
    /\ cache # {}

(***************************************************************************)
(* Claims about the ownership-scoped handlers.                             *)
(***************************************************************************)
WishlistAddAnswered == req.endpoint = "wishlist_add" /\ resp.status # "none"

\* C8: wishlist add is idempotent.  Every add of a (user, restaurant id)
\* pair is answered with success and leaves exactly one wishlist row for the
\* pair; an add of a pair that is already stored leaves the table as it was.
C8_WishlistAddIdempotent ==
    [][ (req'.endpoint = "wishlist_add" /\ resp'.status # "none")
        => /\ resp'.status = "success"
           /\ Len(RowsOf(wishlist', req'.user, req'.yelp_id)) = 1
           /\ (Len(RowsOf(wishlist, req'.user, req'.yelp_id)) > 0
                 => wishlist' = wishlist) ]_vars

\* A repeated add answered with success: the requester's row is older than
\* another user's row, so it was stored before this add arrived.
C8_Witness ==
    /\ WishlistAddAnswered
    /\ resp.status = "success"
    /\ Len(wishlist) = 2
    /\ wishlist[1].user_id = req.user
    /\ wishlist[1].yelp_id = req.yelp_id
    /\ wishlist[2].user_id # req.user

\* Each commit changes its table by at most one row and answers one request.
AppliedOnce ==
    /\ Len(wishlist') - Len(wishlist) \in {-1, 0, 1}
    /\ Len(flags') - Len(flags) \in {-1, 0, 1}
    /\ (wishlist' # wishlist \/ flags' # flags)
          => \E x \in inflight : inflight' = inflight \ {x}

OneRowPerPair ==
    \A u \in Users, y \in Restaurants :
        /\ Len(RowsOf(wishlist, u, y)) <= 1
        /\ Len(RowsOf(flags, u, y)) <= 1

DeleteOfAnothersRow ==
    \/ /\ req'.endpoint = "wishlist_remove"
       /\ Len(RowsOf(wishlist, req'.user, req'.yelp_id)) = 0
       /\ \E i \in 1..Len(wishlist) : wishlist[i].yelp_id = req'.yelp_id
    \/ /\ req'.endpoint = "flags_delete"
       /\ Len(RowsOf(flags, req'.user, req'.yelp_id)) = 0
       /\ \E i \in 1..Len(flags) : flags[i].yelp_id = req'.yelp_id
    \/ /\ req'.endpoint = "review_delete"
       /\ \E i \in 1..Len(reviews) :
             reviews[i].id = req'.review_id /\ reviews[i].user_id # req'.user

\* C10: a wishlist remove, flag delete or review delete whose target row
\* belongs to another user than the requester is answered not-found (never
\* permission-denied), and no stored row changes.
C10_DeleteOfAnothersRowIsNotFound ==
    [][ (resp'.status # "none" /\ DeleteOfAnothersRow)
        => /\ resp' = NotFound
           /\ UNCHANGED <<cache, wishlist, reviews, flags>> ]_vars

\* A review delete by a user who does not own the review, answered not-found,
\* with the review still stored.
C10_Witness ==
    /\ req.endpoint = "review_delete"
    /\ resp = NotFound
    /\ \E i \in 1..Len(reviews) :
          reviews[i].id = req.review_id /\ reviews[i].user_id # req.user

\* The review a review-update request names, as stored before the request.
UpdateTarget == ReviewById(reviews, req'.review_id)

UpdateAllowed ==
    /\ Len(UpdateTarget) > 0
    /\ UpdateTarget[1].user_id = req'.user
    /\ req'.rating \in MinRating..MaxRating
    /\ req'.text_len <= MaxTextLen

\* C11: a review update changes the review's rating and text exactly when the
\* requester is its author, the rating is in 1..5 and the text is at most
\* 1000 characters long; otherwise it is answered with an error and no
\* review changes.  In both cases no other review changes.
C11_ReviewUpdateGuarded ==
    [][ (req'.endpoint = "review_update" /\ resp'.status # "none")
        => IF UpdateAllowed
           THEN /\ resp'.status = "success"
                /\ Len(reviews') = Len(reviews)
                /\ \A i \in 1..Len(reviews) :
                      reviews'[i] =
                         IF reviews[i].id = req'.review_id
                         THEN [reviews[i] EXCEPT !.rating = req'.rating,
                                                 !.text_len = req'.text_len]
                         ELSE reviews[i]
           ELSE /\ resp'.status = "error"
                /\ reviews' = reviews ]_vars

\* An update with an admissible rating and text by a user who is not the
\* author, refused, with the review still holding other values.
C11_Witness ==
    /\ req.endpoint = "review_update"
    /\ resp.status = "error"
    /\ req.rating \in MinRating..MaxRating
    /\ req.text_len <= MaxTextLen
    /\ \E i \in 1..Len(reviews) :
          /\ reviews[i].id = req.review_id
          /\ reviews[i].user_id # req.user
          /\ reviews[i].rating # req.rating

\* An update by the author that was applied.
C11_WitnessApplied ==
    /\ req.endpoint = "review_update"
    /\ resp.status = "success"
    /\ \E i \in 1..Len(reviews) :
          /\ reviews[i].id = req.review_id
          /\ reviews[i].user_id = req.user
          /\ reviews[i].rating = req.rating
          /\ reviews[i].text_len = req.text_len

FlagFields == {"visited", "promo_opt_in"}

\* C12: a flags upsert succeeds and leaves one row for the pair, in which a
\* boolean the body supplies holds the supplied value and a boolean the body
\* leaves out holds its stored value when the row existed and false when
\* this write created the row.
C12_FlagsPartialUpsert ==
    [][ (req'.endpoint = "flags_upsert" /\ resp'.status # "none")
        => LET before == RowsOf(flags, req'.user, req'.yelp_id)
               after == RowsOf(flags', req'.user, req'.yelp_id)
           IN  /\ resp'.status = "success"
               /\ Len(after) = 1
               /\ \A f \in FlagFields :
                     after[1][f] = IF f \in DOMAIN req'.body THEN req'.body[f]
                                   ELSE IF Len(before) > 0 THEN before[1][f]
                                   ELSE FALSE ]_vars

\* A toggle of visited alone on a row whose promo_opt_in was set earlier:
\* promo_opt_in is still set.
C12_Witness ==
    /\ req.endpoint = "flags_upsert"
    /\ resp.status = "success"
    /\ DOMAIN req.body = {"visited"}
    /\ \E i \in 1..Len(flags) :
          /\ flags[i].user_id = req.user
          /\ flags[i].yelp_id = req.yelp_id
          /\ flags[i].visited = req.body.visited
          /\ flags[i].promo_opt_in

(***************************************************************************)
(* Claims about the restaurants router.                                    *)
(***************************************************************************)
DetailAnswered == req.endpoint = "detail" /\ resp.status # "none"

\* The restaurant_cache rows of the requested id.
CachedForRequest == { row \in cache : row.yelp_id = req.yelp_id }

C14_ReviewFailureIsPartialSuccess ==
    (DetailAnswered /\ yelp.outcome = "ok" /\ yelp.reviews_outcome # "ok")
        => /\ resp.status = "success"
           /\ resp.yelp_reviews = <<>>
           /\ resp.restaurant.id = req.yelp_id
           /\ \A f \in DOMAIN yelp.businesses[1] :
                 resp.restaurant[f] = yelp.businesses[1][f]

C14_Witness ==
    /\ DetailAnswered
    /\ yelp.outcome = "ok"
    /\ yelp.reviews_outcome = "rate_limited"
    /\ resp.status = "success"
    /\ resp.yelp_reviews = <<>>

CachedIds(rows) == { row.yelp_id : row \in rows }

OneRowPerYelpId == \A a, b \in cache : a.yelp_id = b.yelp_id => a = b

NoCacheRowDeleted == CachedIds(cache) \subseteq CachedIds(cache')

\* C16: after any sequence of seeding upserts, wishlist detail refreshes
\* and user operations, restaurant_cache holds at most one row per yelp_id,
\* and no step, a user operation in particular, removes the row of a yelp_id.
C16_CacheOneRowPerId == []OneRowPerYelpId /\ [][NoCacheRowDeleted]_vars

\* A refresh asked for by a user rewrote the row of a business that the
\* seeding job had stored with other data; the cache holds the one row.
C16_Witness ==
    /\ req.endpoint = "wishlist_refresh"
    /\ resp.status = "success"
    /\ resp.updated = 1
    /\ Cardinality(cache) = 2
    /\ Cardinality(CachedIds(cache)) = 2
    /\ \E row \in cache : \E b \in SeededBusinesses :
          row.yelp_id = b.id /\ row.review_count # b.review_count

(***************************************************************************)
(* Claims about sign-in.                                                   *)
(***************************************************************************)
\* C17: the users table holds exactly one row for every subject id whose
\* verified request or registration attempt the backend has had.
C17_OneUserRowPerSubject ==
    \A s \in verified : Len(ByUid(users, s)) = 1

\* C20: the profile page is rendered only with a signed-in user; a visitor
\* who is not signed in and goes to the profile's location ends on the login
\* page.
C20_ProfileOnlySignedIn ==
    /\ ui.page = "Profile" => ui.user # "none"
    /\ (ui.path = "/me" /\ ~ui.loading /\ ui.user = "none") => ui.page = "Login"

(***************************************************************************)
(* Claims about validation.                                                *)
(***************************************************************************)
\* The request answered by this step has a parameter out of range or missing.
OutOfRange ==
    CASE req'.endpoint = "search" ->
            req'.limit < 1 \/ req'.limit > 50 \/ req'.offset < 0
      [] req'.endpoint = "nearby" ->
            \/ req'.radius < 100 \/ req'.radius > 40000
            \/ req'.latitude = Missing \/ req'.longitude = Missing
      [] req'.endpoint \in {"review_create", "review_update"} ->
            req'.rating < 1 \/ req'.rating > 5 \/ req'.text_len > 1000
      [] OTHER -> FALSE

SummaryFields ==
    {"id", "name", "rating", "price", "categories", "image_url", "distance",
     "is_open", "review_count", "address", "phone", "yelp_url", "coordinates"}

\* C19: every item of a search answer, from the cache as from the Yelp API,
\* has exactly the fields id, name, rating, price, categories, image_url,
\* distance, is_open, review_count, address, phone, yelp_url and coordinates;
\* only the answer's source marker tells the two paths apart.
C19_SameItemShape ==
    (req.endpoint = "search" /\ resp.status = "success")
        => /\ resp.source \in {"cache", "yelp_api"}
           /\ \A i \in 1..Len(resp.restaurants) :
                 DOMAIN resp.restaurants[i] = SummaryFields

\* An answer from the cache with an item in it.
C19_Witness ==
    /\ req.endpoint = "search"
    /\ resp.status = "success"
    /\ resp.source = "cache"
    /\ Len(resp.restaurants) > 0
    /\ DOMAIN resp.restaurants[1] = SummaryFields

\* An answer from the Yelp API with an item in it.
C19_WitnessLive ==
    /\ req.endpoint = "search"
    /\ resp.status = "success"
    /\ resp.source = "yelp_api"
    /\ Len(resp.restaurants) > 0
    /\ DOMAIN resp.restaurants[1] = SummaryFields

(***************************************************************************)
(* The restaurant details page: its queries' data, the controls it         *)
(* offers, and the mutations its handlers issue.                           *)
(***************************************************************************)
\* The restaurant the page is open on (useParams id).
DetailsId == "m1"

\* The accounts that can be signed in on the page.
DetailsSubjects == {"s1", "s2"}

\* JavaScript values as a strict comparison sees them.
JsNumber(n) == [type |-> "number", value |-> n]

JsString(s) == [type |-> "string", value |-> s]

\* a === b: equal types and equal values, no conversion.
StrictEquals(a, b) == a.type = b.type /\ a.value = b.value

\* users.id (serial) of the row the identity check resolves a subject to.
UserId(table, subject) ==
    CHOOSE i \in 1..Len(table) : table[i].email = Email(subject)

\* user.uid of the Firebase user of a subject.
Uid(user) == JsString(user)

\* One item of GET /reviews?yelp_id=...: the review with its author's row id.
ReviewItem(row) ==
    [id |-> row.id, yelp_id |-> row.yelp_id, rating |-> row.rating,
     text_len |-> row.text_len, user |-> [id |-> JsNumber(row.user_id)]]

\* user && review.user?.id === user.uid: the Delete button is rendered.
DeleteOffered(user, review) ==
    user # "none" /\ StrictEquals(review.user.id, Uid(user))

\* flagsData?.flags || { visited: false, promo_opt_in: false }
DefaultFlags == [visited |-> FALSE, promo_opt_in |-> FALSE]

NoAlert == "none"

InitialDetailsUi ==
    [path |-> "/r/m1", page |-> RouteElement("/r/m1"), user |-> "none",
     loading |-> TRUE, communityReviews |-> <<>>, isInWishlist |-> FALSE,
     flags |-> DefaultFlags, alert |-> NoAlert]

\* The reviews table as earlier sessions of the two accounts left it.
StoredReviews ==
    { <<>>,
      << [id |-> 1, user_id |-> 1, yelp_id |-> DetailsId, rating |-> 5,
          text_len |-> 10] >>,
      << [id |-> 1, user_id |-> 2, yelp_id |-> DetailsId, rating |-> 4,
          text_len |-> 10],
         [id |-> 2, user_id |-> 1, yelp_id |-> DetailsId, rating |-> 5,
          text_len |-> 10] >> }

\* useRestaurantReviews(id) settles: communityReviews = reviewsData.reviews.
FetchReviews ==
    /\ ui.page = "RestaurantDetails"
    /\ LET rows == SelectSeq(reviews, LAMBDA row : row.yelp_id = DetailsId)
       IN  ui' = [ui EXCEPT !.communityReviews =
                               [i \in 1..Len(rows) |-> ReviewItem(rows[i])]]
    /\ UNCHANGED <<store, req, yelp, resp, inflight, verified>>

\* useCheckWishlistStatus(id) settles: isInWishlist = wishlistStatus.in_wishlist.
FetchWishlistStatus ==
    /\ ui.page = "RestaurantDetails"
    /\ ui.user # "none"
    /\ ui' = [ui EXCEPT !.isInWishlist =
                           HasRow(wishlist, UserId(users, ui.user), DetailsId)]
    /\ UNCHANGED <<store, req, yelp, resp, inflight, verified>>

\* useRestaurantFlags(id) settles: flags = flagsData.flags.
FetchFlags ==
    /\ ui.page = "RestaurantDetails"
    /\ ui.user # "none"
    /\ LET rows == RowsOf(flags, UserId(users, ui.user), DetailsId)
       IN  ui' = [ui EXCEPT !.flags =
                     IF Len(rows) > 0
                     THEN [visited |-> rows[1].visited,
                           promo_opt_in |-> rows[1].promo_opt_in]
                     ELSE DefaultFlags]
    /\ UNCHANGED <<store, req, yelp, resp, inflight, verified>>

\* A handler called without a user: an alert and nothing else.
AlertOnly(message) ==
    /\ ui' = [ui EXCEPT !.alert = message]
    /\ UNCHANGED <<store, req, yelp, resp, inflight, verified>>

ToggleAlwaysAdds(isInWishlist) == "wishlist_add"

\* if (isInWishlist) removeFromWishlist.mutate(...) else addToWishlist.mutate(...)
ToggleMutation(isInWishlist) ==
    IF isInWishlist THEN "wishlist_remove" ELSE "wishlist_add"

\* RestaurantDetails.handleWishlistToggle
HandleWishlistToggle ==
    /\ ui.page = "RestaurantDetails"
    /\ IF ui.user = "none"
       THEN AlertOnly("Please sign in to add restaurants to your wishlist")
       ELSE IF ToggleMutation(ui.isInWishlist) = "wishlist_remove"
       THEN RemoveFromWishlist(UserId(users, ui.user), DetailsId)
       ELSE AddToWishlist(UserId(users, ui.user), DetailsId)

\* RestaurantDetails.handleReviewSubmit
HandleReviewSubmit(rating, text_len) ==
    /\ ui.page = "RestaurantDetails"
    /\ IF ui.user = "none"
       THEN AlertOnly("Please sign in to leave a review")
       ELSE CreateReview(UserId(users, ui.user), DetailsId, rating, text_len)

\* RestaurantDetails.handleFlagToggle
HandleFlagToggle(field) ==
    /\ ui.page = "RestaurantDetails"
    /\ IF ui.user = "none"
       THEN AlertOnly("Please sign in to mark preferences")
       ELSE UpsertFlags(UserId(users, ui.user), DetailsId,
                        IF field = "visited"
                        THEN [visited |-> ~ui.flags.visited]
                        ELSE [promo_opt_in |-> ~ui.flags.promo_opt_in])

InitDetailsPage ==
    /\ cache = {}
    /\ wishlist \in { <<>>, << [user_id |-> 1, yelp_id |-> DetailsId] >> }
    /\ reviews \in StoredReviews
    /\ flags = <<>>
    /\ nextId = Len(reviews) + 1
    /\ users = << UserRow("s1"), UserRow("s2") >>
    /\ verified = {}
    /\ ui = InitialDetailsUi
    /\ req = NoRequest
    /\ yelp = NoYelpCall
    /\ resp = NoResponse
    /\ inflight = {}

NextDetailsPage ==
    \/ \E s \in DetailsSubjects \cup {"none"} : AuthStateChanged(s)
    \/ FetchReviews
    \/ FetchWishlistStatus
    \/ FetchFlags
    \/ HandleWishlistToggle
    \/ \E rating \in {5} : HandleReviewSubmit(rating, 10)
    \/ \E field \in {"visited", "promo_opt_in"} : HandleFlagToggle(field)
    \/ Deliver

SpecDetailsPage == InitDetailsPage /\ [][NextDetailsPage]_vars

(***************************************************************************)
(* Claims about the restaurant details page.                               *)
(***************************************************************************)
\* The signed-in user wrote this item of the community review list.
AuthoredBy(user, review) ==
    user # "none" /\ review.user.id.value = UserId(users, user)

\* C21: on the details page the delete control is offered on every
\* community review the signed-in user authored and on no review of another
\* user.
C21_DeleteOfferedOnOwnReviewsOnly ==
    \A i \in 1..Len(ui.communityReviews) :
        DeleteOffered(ui.user, ui.communityReviews[i])
            <=> AuthoredBy(ui.user, ui.communityReviews[i])

\* The step issues a request of one of the given endpoints.
Issues(endpoints) ==
    /\ resp.status = "none"
    /\ resp'.status # "none"
    /\ req'.endpoint \in endpoints

\* C29: with no user signed in the wishlist toggle, the flag toggles and the
\* review submission issue no request and change no table; with a user
\* signed in a wishlist toggle issues one request for that user and the
\* page's restaurant, a remove when the page reports the restaurant in the
\* wishlist and an add otherwise.
C29_MutationsOnlyWhenSignedIn ==
    [][ /\ (ui.user = "none" /\ ui'.user = "none")
            => /\ req' = NoRequest
               /\ resp' = NoResponse
               /\ store' = store
        /\ (HandleWishlistToggle /\ ui.user # "none")
            => Issues({"wishlist_add", "wishlist_remove"})
        /\ Issues({"wishlist_add", "wishlist_remove"})
            => /\ ui.user # "none"
               /\ req'.endpoint = IF ui.isInWishlist THEN "wishlist_remove"
                                  ELSE "wishlist_add"
               /\ req'.user = UserId(users, ui.user)
               /\ req'.yelp_id = DetailsId ]_vars

\* A signed-in user toggled a restaurant the page reported in the wishlist,
\* and the remove found the row.
C29_Witness ==
    /\ ui.user # "none"
    /\ ui.isInWishlist
    /\ req.endpoint = "wishlist_remove"
    /\ resp.status = "success"

\* A toggle without a user: the alert is up and nothing was sent.
C29_WitnessSignedOut ==
    /\ ui.user = "none"
    /\ ~ui.loading
    /\ ui.alert # NoAlert
    /\ req = NoRequest

(***************************************************************************)
(* The locator page: the browser's position, the radius slider, and the    *)
(* nearby query keyed by them.                                             *)
(***************************************************************************)
\* <input type="range" min="1000" max="50000" step="1000">
SliderMin == 1000

SliderMax == 50000

SliderStep == 1000

SliderValues ==
    { SliderMin + k * SliderStep : k \in 0..((SliderMax - SliderMin) \div SliderStep) }

\* useState(5000)
DefaultRadius == 5000

\* The slider positions the user moves between: both ends, the default, and
\* the two positions around the endpoint's largest radius.
SliderStops ==
    { radius \in SliderValues :
        radius \in {SliderMin, DefaultRadius, MaxRadius, MaxRadius + SliderStep,
                    SliderMax} }

LocatorLimit == 20

\* useState(null): no position yet.
NoLocation == <<>>

\* The positions the browser can report.
Positions == { <<300, 400>> }

\* The parameters Locator passes to useNearbyRestaurants with a location.
LocatorRequest(location, radius) ==
    [endpoint |-> "nearby", latitude |-> location[1], longitude |-> location[2],
     radius |-> radius, limit |-> LocatorLimit]

\* The nearby query the page observes: disabled until a location is known.
DisabledQuery == [status |-> "disabled", radius |-> 0, restaurants |-> <<>>]

\* The radius is in the query key: a new key is a new query, fetched anew.
QueryFor(radius) == [status |-> "loading", radius |-> radius, restaurants |-> <<>>]

\* The query observed after the slider moves to radius.
QueryAfterRadiusChange(query, radius) == QueryFor(radius)

\* The query once the response to its request is in.
Settled(radius, response) ==
    IF response.status = "success"
    THEN [status |-> "success", radius |-> radius,
          restaurants |-> response.restaurants]
    ELSE [status |-> "error", radius |-> radius, restaurants |-> <<>>]

InitialLocatorUi ==
    [path |-> "/locator", page |-> RouteElement("/locator"),
     userLocation |-> NoLocation, searchRadius |-> DefaultRadius,
     locationError |-> "none", query |-> DisabledQuery]

\* getCurrentPosition succeeds, on mount or from the Enable Location button.
LocationFound(position) ==
    /\ ui.page = "Locator"
    /\ ui.userLocation = NoLocation
    /\ ui' = [ui EXCEPT !.userLocation = position, !.locationError = "none",
                        !.query = QueryFor(ui.searchRadius)]
    /\ UNCHANGED <<store, req, yelp, resp, inflight, verified>>

\* getCurrentPosition fails.
LocationDenied ==
    /\ ui.page = "Locator"
    /\ ui.userLocation = NoLocation
    /\ ui' = [ui EXCEPT !.locationError = "Unable to get your location"]
    /\ UNCHANGED <<store, req, yelp, resp, inflight, verified>>

\* The slider's onChange: setSearchRadius(parseInt(e.target.value)).
ChangeRadius(radius) ==
    /\ ui.page = "Locator"
    /\ radius # ui.searchRadius
    /\ ui' = [ui EXCEPT !.searchRadius = radius,
                        !.query = IF ui.userLocation = NoLocation THEN ui.query
                                  ELSE QueryAfterRadiusChange(ui.query, radius)]
    /\ UNCHANGED <<store, req, yelp, resp, inflight, verified>>

\* The observed query, still loading, sends its request; the endpoint
\* answers it (Yelp answering) or rejects its parameters.
LocatorFetch ==
    /\ ui.page = "Locator"
    /\ ui.query.status = "loading"
    /\ Idle
    /\ LET r == LocatorRequest(ui.userLocation, ui.query.radius)
       IN  \/ SearchNearbyInvalid(r)
           \/ \E raw \in YelpNearbyPages(<<r.latitude, r.longitude>>,
                                          Min(r.limit, MaxBrowserPage)) :
                 SearchNearby(r, raw)

\* A nearby response comes in: it settles the observed query when it is the
\* response for its key, and otherwise belongs to a query no longer observed.
LocatorReceive ==
    /\ ui.page = "Locator"
    /\ resp.status # "none"
    /\ ui' = IF ui.query.status = "loading" /\ req.radius = ui.query.radius
             THEN [ui EXCEPT !.query = Settled(req.radius, resp)]
             ELSE ui
    /\ req' = NoRequest
    /\ yelp' = NoYelpCall
    /\ resp' = NoResponse
    /\ UNCHANGED <<store, inflight, verified>>

InitLocator ==
    /\ cache = {}
    /\ wishlist = <<>>
    /\ reviews = <<>>
    /\ flags = <<>>
    /\ nextId = 1
    /\ users = <<>>
    /\ verified = {}
    /\ ui = InitialLocatorUi
    /\ req = NoRequest
    /\ yelp = NoYelpCall
    /\ resp = NoResponse
    /\ inflight = {}

NextLocator ==
    \/ \E position \in Positions : LocationFound(position)
    \/ LocationDenied
    \/ \E radius \in SliderStops : ChangeRadius(radius)
    \/ LocatorFetch
    \/ LocatorReceive

\* The query library sends the request of a loading query, and the backend
\* answers every request.
SpecLocator ==
    InitLocator /\ [][NextLocator]_vars
    /\ WF_vars(LocatorFetch) /\ WF_vars(LocatorReceive)

(***************************************************************************)
(* Claims about the locator page.                                          *)
(***************************************************************************)
\* The request for the selected radius is out or has been answered.
SearchIssuedForRadius ==
    \/ ui.query.status \in {"success", "error"} /\ ui.query.radius = ui.searchRadius
    \/ req.endpoint = "nearby" /\ req.radius = ui.searchRadius

\* The page displays the restaurants the endpoint found for the selected
\* radius.
LatestRadiusDisplayed ==
    /\ ui.query.status = "success"
    /\ ui.query.radius = ui.searchRadius

\* With the location known, the search for the selected radius is issued
\* unless the slider keeps moving.
C22_SearchIssuedForLatestRadius ==
    \A radius \in SliderStops :
        (ui.userLocation # NoLocation /\ ui.searchRadius = radius)
            ~> (ui.searchRadius # radius \/ SearchIssuedForRadius)

\* The displayed results are never those of a radius other than the
\* selected one.
C22_NeverOlderResults ==
    (ui.userLocation # NoLocation /\ ui.query.restaurants # <<>>)
        => ui.query.radius = ui.searchRadius

\* C22: on the locator page, once the location is known, every change of
\* the radius slider leads to a nearby search issued with the new radius,
\* and the displayed results are eventually those of the most recently
\* selected radius.
C22_LatestRadiusSearchedAndDisplayed ==
    /\ C22_SearchIssuedForLatestRadius
    /\ \A radius \in SliderStops :
          (ui.userLocation # NoLocation /\ ui.searchRadius = radius)
              ~> (ui.searchRadius # radius \/ LatestRadiusDisplayed)

\* C23: every radius the slider can produce is inside the range the nearby
\* endpoint accepts, and no nearby request of the page is rejected.
C23_SliderRadiusAccepted ==
    /\ \A radius \in SliderValues : radius >= MinRadius /\ radius <= MaxRadius
    /\ ui.searchRadius >= MinRadius /\ ui.searchRadius <= MaxRadius
    /\ ~(req.endpoint = "nearby" /\ resp = ValidationError)

(***************************************************************************)
(* Claims about the in-app links.                                          *)
(***************************************************************************)
\* C24: every link a page offers resolves to a route of the App: following
\* it lands on the page of the component it is meant for, never on a
\* location no route matches.
C24_LinksLandOnIntendedPage ==
    [][ \A link \in LinkTargets :
           FollowLink(link) => /\ RouteElement(link.to) # "none"
                               /\ ui'.page = link.intended ]_vars

(***************************************************************************)
(* The login page: its three forms, their handlers, and the answers of     *)
(* the auth provider's sign-in, sign-up and password reset.                *)
(***************************************************************************)
\* A string as its sequence of characters.
Whitespace == {" ", "\t"}

FullNames == { <<>>, <<" ">>, <<" ", "\t">>, <<"A">>, <<" ", "A", " ">> }

RECURSIVE TrimStart(_)
TrimStart(s) ==
    IF Len(s) > 0 /\ Head(s) \in Whitespace THEN TrimStart(Tail(s)) ELSE s

RECURSIVE TrimEnd(_)
TrimEnd(s) ==
    IF Len(s) > 0 /\ s[Len(s)] \in Whitespace
    THEN TrimEnd(SubSeq(s, 1, Len(s) - 1))
    ELSE s

NoTrim(s) == s

\* fullName.trim()
Trim(s) == TrimEnd(TrimStart(s))

FullNameRequired == "Please enter your full name"

ResetSent == "Password reset email sent! Check your inbox."

\* The error strings signIn, signUp and resetPassword answer with.
AuthErrors == {"auth_error"}

InitialLoginUi ==
    [path |-> "/login", page |-> RouteElement("/login"), user |-> "none",
     mode |-> "login", fullName |-> <<>>, loading |-> FALSE, error |-> Null,
     success |-> Null, pending |-> "none"]

\* "Forgot password?" and "Sign up": setMode alone.
SwitchMode(mode) ==
    /\ ui.page = "Login"
    /\ ui.mode = "login"
    /\ mode \in {"reset", "signup"}
    /\ ui' = [ui EXCEPT !.mode = mode]
    /\ UNCHANGED <<store, req, yelp, resp, inflight, verified>>

\* "Sign in" under the signup and reset forms: setMode('login'),
\* setError(null), setSuccess(null).
BackToLogin ==
    /\ ui.page = "Login"
    /\ ui.mode \in {"signup", "reset"}
    /\ ui' = [ui EXCEPT !.mode = "login", !.error = Null, !.success = Null]
    /\ UNCHANGED <<store, req, yelp, resp, inflight, verified>>

\* The full name field's onChange.
SetFullName(name) ==
    /\ ui.page = "Login"
    /\ ui.mode = "signup"
    /\ name # ui.fullName
    /\ ui' = [ui EXCEPT !.fullName = name]
    /\ UNCHANGED <<store, req, yelp, resp, inflight, verified>>

\* Login.handleLogin up to its await; the submit button is disabled while
\* loading.
HandleLoginSubmit ==
    /\ ui.page = "Login"
    /\ ui.mode = "login"
    /\ ~ui.loading
    /\ ui' = [ui EXCEPT !.loading = TRUE, !.error = Null, !.pending = "login"]
    /\ UNCHANGED <<store, req, yelp, resp, inflight, verified>>

\* Login.handleSignup up to its await, or to its return for a blank name.
HandleSignup ==
    /\ ui.page = "Login"
    /\ ui.mode = "signup"
    /\ ~ui.loading
    /\ ui' = IF Trim(ui.fullName) = <<>>
             THEN [ui EXCEPT !.error = FullNameRequired, !.loading = FALSE]
             ELSE [ui EXCEPT !.loading = TRUE, !.error = Null,
                             !.pending = "signup"]
    /\ UNCHANGED <<store, req, yelp, resp, inflight, verified>>

\* Login.handleReset up to its await.
HandleReset ==
    /\ ui.page = "Login"
    /\ ui.mode = "reset"
    /\ ~ui.loading
    /\ ui' = [ui EXCEPT !.loading = TRUE, !.error = Null, !.success = Null,
                        !.pending = "reset"]
    /\ UNCHANGED <<store, req, yelp, resp, inflight, verified>>

AfterResetStillLoading(state, outcome) ==
    IF outcome \in AuthErrors
    THEN [state EXCEPT !.error = outcome, !.pending = "none"]
    ELSE [state EXCEPT !.success = ResetSent, !.loading = FALSE,
                       !.pending = "none"]

\* handleReset after its await: the error or the success message, and
\* setLoading(false) either way.
AfterReset(state, outcome) ==
    IF outcome \in AuthErrors
    THEN [state EXCEPT !.error = outcome, !.loading = FALSE, !.pending = "none"]
    ELSE [state EXCEPT !.success = ResetSent, !.loading = FALSE,
                       !.pending = "none"]

\* handleLogin and handleSignup after their await, with an error.
AfterAuthError(state, outcome) ==
    [state EXCEPT !.error = outcome, !.loading = FALSE, !.pending = "none"]

\* The auth provider answers the pending call.  A sign-in or sign-up that
\* succeeds navigates to "/", which unmounts the page.
AuthResponds(outcome) ==
    /\ ui.page = "Login"
    /\ ui.pending # "none"
    /\ ui' = IF ui.pending = "reset" THEN AfterReset(ui, outcome)
             ELSE IF outcome \in AuthErrors THEN AfterAuthError(ui, outcome)
             ELSE [InitialLoginUi EXCEPT !.path = "/", !.page = RouteElement("/"),
                                         !.user = "s1"]
    /\ UNCHANGED <<store, req, yelp, resp, inflight, verified>>

InitLogin ==
    /\ cache = {}
    /\ wishlist = <<>>
    /\ reviews = <<>>
    /\ flags = <<>>
    /\ nextId = 1
    /\ users = <<>>
    /\ verified = {}
    /\ ui = InitialLoginUi
    /\ req = NoRequest
    /\ yelp = NoYelpCall
    /\ resp = NoResponse
    /\ inflight = {}

NextLogin ==
    \/ \E mode \in {"reset", "signup"} : SwitchMode(mode)
    \/ BackToLogin
    \/ \E name \in FullNames : SetFullName(name)
    \/ HandleLoginSubmit
    \/ HandleSignup
    \/ HandleReset
    \/ \E outcome \in AuthErrors \cup {"ok"} : AuthResponds(outcome)

\* Every call of the auth provider is answered.
SpecLogin ==
    InitLogin /\ [][NextLogin]_vars
    /\ WF_vars(\E outcome \in AuthErrors \cup {"ok"} : AuthResponds(outcome))

(***************************************************************************)
(* Claims about the login page.                                            *)
(***************************************************************************)
\* C25: on the login page the error message and the success message are
\* never both set.
C25_ErrorAndSuccessExclusive ==
    ui.page = "Login" => ~(ui.error # Null /\ ui.success # Null)

\* Exactly one of the two messages is set.
OneMessage(state) == (state.error # Null) # (state.success # Null)

\* The step completes the pending attempt and the page stays.
Completes(kinds) ==
    /\ ui.pending \in kinds
    /\ ui'.pending = "none"
    /\ ui'.page = "Login"

\* C26: a login or signup attempt that completes with an error leaves
\* loading false; a password-reset attempt completes, and when it does
\* loading is false and exactly one of error and success is set.
C26_AttemptsEndNotLoading ==
    /\ [][ /\ (Completes({"login", "signup"}) /\ ui'.error # Null)
               => ~ui'.loading
           /\ Completes({"reset"}) => (~ui'.loading /\ OneMessage(ui')) ]_vars
    /\ (ui.pending = "reset")
          ~> (ui.pending = "none" /\ ~ui.loading /\ OneMessage(ui))

\* A reset attempt has ended with the provider's error.
C26_Witness ==
    /\ ui.page = "Login"
    /\ ui.pending = "none"
    /\ ~ui.loading
    /\ ui.error \in AuthErrors
    /\ ui.success = Null
    /\ ui.mode = "reset"

\* A signup attempt has ended with the provider's error.
C26_WitnessSignup ==
    /\ ui.page = "Login"
    /\ ui.mode = "signup"
    /\ ui.pending = "none"
    /\ ui.error \in AuthErrors
    /\ ~ui.loading

\* A string that is empty or holds whitespace only.
Blank(name) == \A i \in 1..Len(name) : name[i] \in Whitespace

\* C27: submitting the signup form with a full name that is empty or only
\* whitespace sets the error 'Please enter your full name', leaves loading
\* false, and calls no sign-up.
C27_BlankNameRejected ==
    [][ (HandleSignup /\ Blank(ui.fullName))
          => /\ ui'.error = FullNameRequired
             /\ ~ui'.loading
             /\ ui'.pending = "none" ]_vars

\* The signup form was submitted with a name of whitespace only.
C27_Witness ==
    /\ ui.page = "Login"
    /\ ui.mode = "signup"
    /\ Len(ui.fullName) > 0
    /\ Blank(ui.fullName)
    /\ ui.error = FullNameRequired
    /\ ~ui.loading
    /\ ui.pending = "none"

(***************************************************************************)
(* The auth provider: its mount effect, Firebase's callbacks, and the      *)
(* backend registration it attempts for a reported user.                   *)
(***************************************************************************)
NotConfigured == "Firebase not configured. Please add credentials to .env.local"

\* The messages of the errors Firebase reports to the subscription.
FirebaseErrors == {"auth/network-request-failed"}

ProviderSubjects == {"s1", "s2"}

\* useState(null), useState(true), useState(null), before the effect runs.
InitialProviderUi(configured) ==
    [path |-> "/", page |-> RouteElement("/"), user |-> "none", loading |-> TRUE,
     error |-> Null, configured |-> configured, mounted |-> FALSE,
     registering |-> {}]

\* The effect of AuthProvider: without a configuration it ends loading with
\* an error and subscribes to nothing; otherwise it subscribes.
MountProvider ==
    /\ ~ui.mounted
    /\ ui' = IF ~ui.configured
             THEN [ui EXCEPT !.mounted = TRUE, !.loading = FALSE,
                             !.error = NotConfigured]
             ELSE [ui EXCEPT !.mounted = TRUE]
    /\ UNCHANGED <<store, req, yelp, resp, inflight, verified>>

\* The subscription's callback: setUser, setLoading(false), and for a user
\* the registration is sent.
OnAuthStateChanged(firebaseUser) ==
    /\ ui.mounted /\ ui.configured
    /\ firebaseUser # ui.user \/ ui.loading
    /\ ui' = [ui EXCEPT !.user = firebaseUser, !.loading = FALSE,
                        !.registering = IF firebaseUser = "none" THEN @
                                        ELSE @ \cup {firebaseUser}]
    /\ UNCHANGED <<store, req, yelp, resp, inflight, verified>>

\* The subscription's error callback: setError(err.message), setLoading(false).
OnAuthError(message) ==
    /\ ui.mounted /\ ui.configured
    /\ ui' = [ui EXCEPT !.error = message, !.loading = FALSE]
    /\ UNCHANGED <<store, req, yelp, resp, inflight, verified>>

RegistrationFailureShown(state, subject, outcome) ==
    IF outcome = "ok" THEN [state EXCEPT !.registering = @ \ {subject}]
    ELSE [state EXCEPT !.registering = @ \ {subject}, !.error = outcome]

\* The provider after registerUserMutation.mutateAsync settles: a failure
\* is caught and ignored.
AfterRegistration(state, subject, outcome) ==
    [state EXCEPT !.registering = @ \ {subject}]

\* The registration of a reported user is answered: stored, or failed (the
\* user exists already, or the request did not get through).
RegistrationSettles(subject, outcome) ==
    /\ subject \in ui.registering
    /\ outcome = "ok" <=> RegisterUser(users, subject) # users
    /\ users' = RegisterUser(users, subject)
    /\ verified' = verified \cup {subject}
    /\ ui' = AfterRegistration(ui, subject, outcome)
    /\ UNCHANGED <<cache, wishlist, reviews, flags, nextId, req, yelp, resp,
                   inflight>>

\* The registration request does not get through.
RegistrationLost(subject) ==
    /\ subject \in ui.registering
    /\ ui' = AfterRegistration(ui, subject, "failed")
    /\ UNCHANGED <<store, req, yelp, resp, inflight, verified>>

InitProvider ==
    /\ cache = {}
    /\ wishlist = <<>>
    /\ reviews = <<>>
    /\ flags = <<>>
    /\ nextId = 1
    /\ users = <<>>
    /\ verified = {}
    /\ \E configured \in BOOLEAN : ui = InitialProviderUi(configured)
    /\ req = NoRequest
    /\ yelp = NoYelpCall
    /\ resp = NoResponse
    /\ inflight = {}

NextProvider ==
    \/ MountProvider
    \/ \E s \in ProviderSubjects \cup {"none"} : OnAuthStateChanged(s)
    \/ \E message \in FirebaseErrors : OnAuthError(message)
    \/ \E s \in ProviderSubjects, outcome \in {"ok", "failed"} :
          RegistrationSettles(s, outcome)
    \/ \E s \in ProviderSubjects : RegistrationLost(s)

\* The effect runs after the first render.
SpecProvider == InitProvider /\ [][NextProvider]_vars /\ WF_vars(MountProvider)

(***************************************************************************)
(* Claims about the auth provider.                                         *)
(***************************************************************************)
\* The step is the failure of a backend registration.
RegistrationFails ==
    \E s \in ProviderSubjects :
        RegistrationLost(s) \/ RegistrationSettles(s, "failed")

\* The step is the first word from Firebase, or the effect finding no
\* configuration.
LoadingEnds ==
    \/ \E s \in ProviderSubjects \cup {"none"} : OnAuthStateChanged(s)
    \/ \E message \in FirebaseErrors : OnAuthError(message)
    \/ MountProvider /\ ~ui.configured

\* C28: in the auth provider loading is true initially and becomes false
\* with the first auth-state callback or auth error, or with the mount when
\* Firebase is not configured (then error is set and user stays null); once
\* false, loading never becomes true again; a failed backend registration
\* changes none of user, loading and error.
C28_ProviderLoading ==
    /\ [](~ui.mounted => (ui.loading /\ ui.user = "none" /\ ui.error = Null))
    /\ []((ui.mounted /\ ~ui.configured)
            => (~ui.loading /\ ui.error = NotConfigured /\ ui.user = "none"))
    /\ [][ /\ LoadingEnds => ~ui'.loading
           /\ (ui.loading /\ ~ui'.loading) => LoadingEnds
           /\ ~ui.loading => ~ui'.loading
           /\ RegistrationFails => /\ ui'.user = ui.user
                                   /\ ui'.loading = ui.loading
                                   /\ ui'.error = ui.error ]_vars
    /\ (~ui.configured) ~> (~ui.loading)

\* A registration failed while its user was signed in and nothing else was
\* reported: the provider shows the user, not loading, without an error.
C28_Witness ==
    /\ ui.configured
    /\ ui.user = "s1"
    /\ ~ui.loading
    /\ ui.error = Null
    /\ ui.registering = {}
    /\ Len(users) = 0

\* Firebase is not configured and the provider has mounted.
C28_WitnessNotConfigured ==
    /\ ~ui.configured
    /\ ~ui.loading
    /\ ui.error = NotConfigured
    /\ ui.user = "none"

(***************************************************************************)
(* The home page: the search form, the search captured at submit, and the  *)
(* search query observed for it.                                           *)
(***************************************************************************)
HomeLimit == 20

\* The values the form's fields are edited between.
FormQueries == {"", "pizza"}

FormLocations == {"New York, NY", "MAN", ""}

FormCuisines == {"", "thai"}

FormPrices == {"$$"}

FormRatings == {Missing, 45}

\* useState({ query: '', location: 'New York, NY', cuisine: '', price: [],
\* rating_min: undefined })
InitialSearchParams ==
    [query |-> "", location |-> "New York, NY", cuisine |-> "", price |-> {},
     rating_min |-> Missing]

\* activeSearch: <<>> for null, or the one captured form.
NoActiveSearch == <<>>

HookParamsFromForm(activeSearch, searchParams) == searchParams

\* useSearchRestaurants(activeSearch || { query: '', location: '' })
HookParams(activeSearch, searchParams) ==
    IF activeSearch = NoActiveSearch
    THEN [InitialSearchParams EXCEPT !.location = ""]
    ELSE activeSearch[1]

\* The hook fetches only for a location.
HookEnabled(params) == params.location # ""

HomeRequest(params) ==
    [endpoint |-> "search", q |-> params.query, location |-> params.location,
     cuisine |-> params.cuisine, price |-> params.price,
     rating_min |-> params.rating_min, limit |-> HomeLimit, offset |-> 0]

\* The query the page observes for the hook's parameters: the same query
\* while they are the same, and a query of its own when they change.
Observed(query, before, after) ==
    IF after = before THEN query
    ELSE IF HookEnabled(after)
         THEN [status |-> "loading", params |-> after, restaurants |-> <<>>]
         ELSE [status |-> "disabled", params |-> after, restaurants |-> <<>>]

InitialHomeUi ==
    [path |-> "/", page |-> RouteElement("/"),
     searchParams |-> InitialSearchParams, activeSearch |-> NoActiveSearch,
     query |-> [status |-> "disabled",
                params |-> HookParams(NoActiveSearch, InitialSearchParams),
                restaurants |-> <<>>]]

\* The page after a render with new state: the hook observes the query of
\* its parameters, and the answer to a search no longer observed is not
\* awaited.
HomeRender(searchParams, activeSearch) ==
    LET before == HookParams(ui.activeSearch, ui.searchParams)
        after == HookParams(activeSearch, searchParams)
    IN  /\ ui' = [ui EXCEPT !.searchParams = searchParams,
                            !.activeSearch = activeSearch,
                            !.query = Observed(ui.query, before, after)]
        /\ IF after = before
           THEN UNCHANGED <<req, yelp, resp>>
           ELSE req' = NoRequest /\ yelp' = NoYelpCall /\ resp' = NoResponse
        /\ UNCHANGED <<store, inflight, verified>>

\* The onChange of the query, location, cuisine and rating fields.
EditField(field, value) ==
    /\ ui.page = "Home"
    /\ ui.searchParams[field] # value
    /\ HomeRender([ui.searchParams EXCEPT ![field] = value], ui.activeSearch)

\* Home.handlePriceToggle
HandlePriceToggle(price) ==
    /\ ui.page = "Home"
    /\ HomeRender([ui.searchParams EXCEPT
                      !.price = IF price \in @ THEN @ \ {price}
                                ELSE @ \cup {price}],
                  ui.activeSearch)

\* Home.handleSearch: setActiveSearch(searchParams).
HandleSearch ==
    /\ ui.page = "Home"
    /\ HomeRender(ui.searchParams, <<ui.searchParams>>)

\* The observed query, still loading, sends its search; the endpoint
\* answers it from the cache or from Yelp.
HomeFetch ==
    /\ ui.page = "Home"
    /\ ui.query.status = "loading"
    /\ Idle
    /\ LET r == HomeRequest(ui.query.params)
       IN  \/ SearchCached(r)
           \/ \E raw \in YelpSearchPages(Min(r.limit, MaxBrowserPage)) :
                 SearchYelp(r, raw)
           \/ \E o \in YelpFailures : SearchYelpFails(r, o)

\* The answer to the observed search comes in.
HomeReceive ==
    /\ ui.page = "Home"
    /\ resp.status # "none"
    /\ ui' = [ui EXCEPT !.query =
                 IF resp.status = "success"
                 THEN [@ EXCEPT !.status = "success",
                                !.restaurants = resp.restaurants]
                 ELSE [@ EXCEPT !.status = "error"]]
    /\ req' = NoRequest
    /\ yelp' = NoYelpCall
    /\ resp' = NoResponse
    /\ UNCHANGED <<store, inflight, verified>>

\* ErrorBanner's onRetry: refetch().
HomeRetry ==
    /\ ui.page = "Home"
    /\ ui.query.status = "error"
    /\ ui' = [ui EXCEPT !.query = [@ EXCEPT !.status = "loading"]]
    /\ UNCHANGED <<store, req, yelp, resp, inflight, verified>>

InitHome ==
    /\ cache = { CacheRow(b) : b \in YelpBusinesses }
    /\ wishlist = <<>>
    /\ reviews = <<>>
    /\ flags = <<>>
    /\ nextId = 1
    /\ users = <<>>
    /\ verified = {}
    /\ ui = InitialHomeUi
    /\ req = NoRequest
    /\ yelp = NoYelpCall
    /\ resp = NoResponse
    /\ inflight = {}

NextHome ==
    \/ \E value \in FormQueries : EditField("query", value)
    \/ \E value \in FormLocations : EditField("location", value)
    \/ \E value \in FormCuisines : EditField("cuisine", value)
    \/ \E value \in FormRatings : EditField("rating_min", value)
    \/ \E price \in FormPrices : HandlePriceToggle(price)
    \/ HandleSearch
    \/ HomeFetch
    \/ HomeReceive
    \/ HomeRetry

SpecHome == InitHome /\ [][NextHome]_vars

C30_WitnessBeforeSubmit ==
    /\ ui.activeSearch = NoActiveSearch
    /\ ui.searchParams # InitialSearchParams
    /\ req = NoRequest

====
